---------------------------- MODULE Spec2Model ----------------------------
(***************************************************************************)
(* A model of the paddle scraping backend (src/backend/python).            *)
(*                                                                         *)
(* Python strings are sequences of one-character strings, so that          *)
(* replace, strip, split, the regular expressions and float() are computed *)
(* on the text the way the code computes them.  Python floats are exact    *)
(* rationals <<n, d>> in lowest terms with d > 0 (IEEE rounding is not     *)
(* modelled), None is the tuple <<"None">>, and an exception that leaves a *)
(* function is the name of its class (<<"ValueError">>, ...).              *)
(***************************************************************************)
EXTENDS Integers, Sequences, FiniteSets, TLC

VARIABLES
    fl_in,        \* extract_float: the pieces the argument is spelled from
    fl_text,      \* extract_float: the argument
    fl_ps,        \* what paddle_scraper.extract_float returned
    fl_dm,        \* what data_models.extract_float returned
    fl_pc,        \* "idle" | "call" | "ps" | "done"
    nm_raw,       \* clean_model_name: the argument
    nm_clean,     \* clean_model_name(nm_raw)
    nm_clean2,    \* clean_model_name(nm_clean)
    nm_pc,        \* "idle" | "call" | "cleaned" | "recleaned"
    sh_length,    \* determine_paddle_shape_from_length: the argument
    sh_label,     \* normalize_paddle_shape: a free-text label
    sh_shape,     \* the shape before normalization
    sh_norm,      \* normalize_paddle_shape(sh_shape)
    sh_pc,        \* "idle" | "call" | "done" | "normalized"
    id_brand,     \* generate_paddle_id: the arguments of a first call
    id_model,
    id_brand2,    \* and of a second call
    id_model2,
    id_out,       \* generate_paddle_id(id_brand, id_model)
    id_out2,      \* generate_paddle_id(id_brand2, id_model2)
    id_pc,        \* "idle" | "call" | "first" | "done"
    fs_files,     \* the image files on disk: a set of <<path, content>>
    net_log,      \* the network requests and the sleeps so far, in order
    gx_listing,   \* scrape_all: the listing pages of the site, in order
    gx_urls,      \* the product pages behind paddle_urls, in order
    gx_i,         \* the index of the next url of the loop
    gx_page,      \* scrape_paddle: the product page behind the url
    gx_result,    \* what scrape_paddle returned
    gx_missing,   \* missing_fields at the end of that call
    gx_image,     \* the url download_image was called with in that call, or None
    gx_paddles,   \* the list paddles of scrape_all
    gx_pc,        \* "idle" | "urls" | "loop" | "scraped" | "done"
    ct_cards,     \* scrape_central_paddles: the product cards of the listing
    ct_i,         \* the index of the next card of the loop
    ct_last,      \* the record of the card processed last, if it gave one
    ct_paddles,   \* the list paddles
    ct_pc,        \* "idle" | "fetch" | "loop" | "done"
    im_url,       \* download_image: the arguments of a first call
    im_brand,
    im_model,
    im_folder,
    im_url2,      \* the url of a second call
    im_response,  \* what the server had to answer in the first call
    im_ret,       \* what the first call returned
    im_files,     \* the disk after the first call
    im_log,       \* the requests up to the end of the first call
    im_ret2,      \* what the second call returned
    im_pc,        \* "idle" | "call" | "first" | "again"
    hx_tags,      \* the <img> tags of a product page, in order
    hx_scraped,   \* the image_url scrape_paddle chooses on the page
    hx_extracted, \* what extract_image_url_from_galaxy_html returns for it
    hx_pc,        \* "idle" | "page" | "scraped" | "done"
    sv_page,      \* HeuristicScrapeTool: the page text
    sv_specs,     \* the specs text found in the page, or None
    sv_keyword,   \* the keyword of the extract_spec_value call
    sv_out,       \* what extract_spec_value returned or raised
    sv_pc,        \* "idle" | "page" | "specs" | "done"
    xp_record,    \* export scripts: a record of the loaded file
    xp_script,    \* "none" | "inserter" | "upload"
    xp_payload,   \* the payload sent, or what the transformation raised
    xp_pc,        \* "idle" | "record" | "done"
    jb_jobs,      \* api_service: scrape_jobs, job id -> job dict
    jb_task,      \* job id -> "queued" | "awaiting" | "finished", its background task
    jb_results,   \* job id -> the results local of its background task
    jb_response,  \* the last response of get_job_status
    jb_pc,        \* "idle" | "serving"
    ins_file,     \* insert_paddles: the records of the JSON file
    ins_readable, \* whether the file can be opened and parsed
    ins_paddles,  \* the loaded list
    ins_i,        \* records processed so far
    ins_posted,   \* the payloads posted, in order
    ins_responses, \* the outcome of each post, in order
    ins_successful, \* successful_inserts
    ins_failed,   \* failed_inserts
    ins_sleeps,   \* calls of time.sleep(0.1)
    ins_pc        \* "idle" | "load" | "loop" | "done"

floatVars == <<fl_in, fl_text, fl_ps, fl_dm, fl_pc>>
nameVars == <<nm_raw, nm_clean, nm_clean2, nm_pc>>
shapeVars == <<sh_length, sh_label, sh_shape, sh_norm, sh_pc>>
idVars == <<id_brand, id_model, id_brand2, id_model2, id_out, id_out2, id_pc>>
envVars == <<fs_files, net_log>>
galaxyVars == <<gx_listing, gx_urls, gx_i, gx_page, gx_result, gx_missing, gx_image, gx_paddles, gx_pc>>
centralVars == <<ct_cards, ct_i, ct_last, ct_paddles, ct_pc>>
imageVars == <<im_url, im_brand, im_model, im_folder, im_url2, im_response, im_ret, im_files,
               im_log, im_ret2, im_pc>>
htmlVars == <<hx_tags, hx_scraped, hx_extracted, hx_pc>>
heuristicVars == <<sv_page, sv_specs, sv_keyword, sv_out, sv_pc>>
exportVars == <<xp_record, xp_script, xp_payload, xp_pc>>
jobsVars == <<jb_jobs, jb_task, jb_results, jb_response, jb_pc>>
inserterVars == <<ins_file, ins_readable, ins_paddles, ins_i, ins_posted, ins_responses, ins_successful, ins_failed, ins_sleeps, ins_pc>>

\* what the actions of one component leave alone (the adapters write the
\* disk and the network log, so these are not in their lists)
notFloatVars == <<envVars, nameVars, shapeVars, idVars, galaxyVars, centralVars, imageVars, htmlVars, heuristicVars, exportVars, jobsVars, inserterVars>>
notNameVars == <<envVars, floatVars, shapeVars, idVars, galaxyVars, centralVars, imageVars, htmlVars, heuristicVars, exportVars, jobsVars, inserterVars>>
notShapeVars == <<envVars, floatVars, nameVars, idVars, galaxyVars, centralVars, imageVars, htmlVars, heuristicVars, exportVars, jobsVars, inserterVars>>
notIdVars == <<envVars, floatVars, nameVars, shapeVars, galaxyVars, centralVars, imageVars, htmlVars, heuristicVars, exportVars, jobsVars, inserterVars>>
notGalaxyVars == <<floatVars, nameVars, shapeVars, idVars, centralVars, imageVars, htmlVars, heuristicVars, exportVars, jobsVars, inserterVars>>
notImageVars == <<floatVars, nameVars, shapeVars, idVars, galaxyVars, centralVars, htmlVars, heuristicVars, exportVars, jobsVars, inserterVars>>
notHtmlVars == <<envVars, floatVars, nameVars, shapeVars, idVars, galaxyVars, centralVars, imageVars, heuristicVars, exportVars, jobsVars, inserterVars>>
notHeuristicVars == <<envVars, floatVars, nameVars, shapeVars, idVars, galaxyVars, centralVars, imageVars, htmlVars, exportVars, jobsVars, inserterVars>>
notExportVars == <<envVars, floatVars, nameVars, shapeVars, idVars, galaxyVars, centralVars, imageVars, htmlVars, heuristicVars, jobsVars, inserterVars>>
notJobsVars == <<envVars, floatVars, nameVars, shapeVars, idVars, galaxyVars, centralVars, imageVars, htmlVars, heuristicVars, exportVars, inserterVars>>
notInserterVars == <<envVars, floatVars, nameVars, shapeVars, idVars, galaxyVars, centralVars, imageVars, htmlVars, heuristicVars, exportVars, jobsVars>>
notCentralVars == <<floatVars, nameVars, shapeVars, idVars, galaxyVars, imageVars, htmlVars, heuristicVars, exportVars, jobsVars, inserterVars>>

vars == <<envVars, floatVars, nameVars, shapeVars, idVars, galaxyVars, centralVars, imageVars, htmlVars, heuristicVars, exportVars, jobsVars, inserterVars>>

---------------------------------------------------------------------------
(* Python values *)

\* (one-element tuples, which TLC can compare with texts and with rationals)
None == <<"None">>
ValueError == <<"ValueError">>
ZeroDivisionError == <<"ZeroDivisionError">>
Exceptions == {ValueError, ZeroDivisionError}
NoReturn == <<"NoReturn">>   \* a block that ended without a return statement
\* no Paddle object: scrape_paddle returned None, a product card gave no record
NoPaddle == [none |-> TRUE]

---------------------------------------------------------------------------
(* Rational arithmetic for float values *)

RECURSIVE Gcd(_, _)
Gcd(a, b) == IF b = 0 THEN a ELSE Gcd(b, a % b)

Abs(n) == IF n < 0 THEN 0 - n ELSE n

Rat(n, d) ==
    LET g == Gcd(Abs(n), Abs(d))
        s == IF d < 0 THEN 0 - 1 ELSE 1
    IN  <<(s * n) \div g, (s * d) \div g>>

IsRat(v) == v \notin (Exceptions \cup {None, NoReturn})
RatAdd(x, y) == Rat(x[1] * y[2] + y[1] * x[2], x[2] * y[2])
RatDiv(x, y) == IF y[1] = 0 THEN ZeroDivisionError ELSE Rat(x[1] * y[2], x[2] * y[1])
RatGeq(x, y) == x[1] * y[2] >= y[1] * x[2]
RatLt(x, y) == x[1] * y[2] < y[1] * x[2]
\* Python truthiness of an Optional[float]: None and 0.0 are false
Truthy(v) == v # None /\ v[1] # 0

---------------------------------------------------------------------------
(* Characters *)

DigitChars == {"0", "1", "2", "3", "4", "5", "6", "7", "8", "9"}
DigitVal(c) ==
    CASE c = "0" -> 0 [] c = "1" -> 1 [] c = "2" -> 2 [] c = "3" -> 3
      [] c = "4" -> 4 [] c = "5" -> 5 [] c = "6" -> 6 [] c = "7" -> 7
      [] c = "8" -> 8 [] c = "9" -> 9
UpperChars == {"A", "B", "C", "D", "E", "F", "G", "H", "I", "J", "K", "L", "M",
               "N", "O", "P", "Q", "R", "S", "T", "U", "V", "W", "X", "Y", "Z"}
LowerChars == {"a", "b", "c", "d", "e", "f", "g", "h", "i", "j", "k", "l", "m",
               "n", "o", "p", "q", "r", "s", "t", "u", "v", "w", "x", "y", "z"}
LowerOf(c) ==
    CASE c = "A" -> "a" [] c = "B" -> "b" [] c = "C" -> "c" [] c = "D" -> "d"
      [] c = "E" -> "e" [] c = "F" -> "f" [] c = "G" -> "g" [] c = "H" -> "h"
      [] c = "I" -> "i" [] c = "J" -> "j" [] c = "K" -> "k" [] c = "L" -> "l"
      [] c = "M" -> "m" [] c = "N" -> "n" [] c = "O" -> "o" [] c = "P" -> "p"
      [] c = "Q" -> "q" [] c = "R" -> "r" [] c = "S" -> "s" [] c = "T" -> "t"
      [] c = "U" -> "u" [] c = "V" -> "v" [] c = "W" -> "w" [] c = "X" -> "x"
      [] c = "Y" -> "y" [] c = "Z" -> "z" [] OTHER -> c
UpperOf(c) ==
    CASE c = "a" -> "A" [] c = "b" -> "B" [] c = "c" -> "C" [] c = "d" -> "D"
      [] c = "e" -> "E" [] c = "f" -> "F" [] c = "g" -> "G" [] c = "h" -> "H"
      [] c = "i" -> "I" [] c = "j" -> "J" [] c = "k" -> "K" [] c = "l" -> "L"
      [] c = "m" -> "M" [] c = "n" -> "N" [] c = "o" -> "O" [] c = "p" -> "P"
      [] c = "q" -> "Q" [] c = "r" -> "R" [] c = "s" -> "S" [] c = "t" -> "T"
      [] c = "u" -> "U" [] c = "v" -> "V" [] c = "w" -> "W" [] c = "x" -> "X"
      [] c = "y" -> "Y" [] c = "z" -> "Z" [] OTHER -> c
\* str.isspace / the regular expression class \s
IsSpace(c) == c \in {" ", "\t", "\n"}
\* the regular expression class \w
IsWordChar(c) == c \in DigitChars \cup UpperChars \cup LowerChars \cup {"_"}

---------------------------------------------------------------------------
(* Python str operations *)

Slice(s, i, j) == IF i > j THEN <<>> ELSE SubSeq(s, i, j)   \* s[i-1:j]
From(s, i) == Slice(s, i, Len(s))

\* str.lower
Lower(s) == [i \in 1..Len(s) |-> LowerOf(s[i])]

\* str.title: a letter that follows a letter is lower case, any other
\* letter is upper case
Title(s) ==
    [i \in 1..Len(s) |->
        IF i > 1 /\ s[i - 1] \in UpperChars \cup LowerChars THEN LowerOf(s[i]) ELSE UpperOf(s[i])]

\* str.startswith with an offset: sub occurs in s at position i
MatchAt(s, i, sub) ==
    /\ i + Len(sub) - 1 <= Len(s)
    /\ \A k \in 1..Len(sub) : s[i + k - 1] = sub[k]

StartsWith(s, sub) == MatchAt(s, 1, sub)
EndsWith(s, sub) == Len(sub) <= Len(s) /\ MatchAt(s, Len(s) - Len(sub) + 1, sub)

\* sub in s
Contains(s, sub) == \E i \in 1..(Len(s) + 1) : MatchAt(s, i, sub)

\* str.find, 1-based; 0 when sub does not occur
Find(s, sub) ==
    IF Contains(s, sub)
    THEN CHOOSE i \in 1..(Len(s) + 1) :
            MatchAt(s, i, sub) /\ \A j \in 1..(i - 1) : ~MatchAt(s, j, sub)
    ELSE 0

\* str.replace(old, new) for a non-empty old: left to right, non-overlapping
RECURSIVE Replace(_, _, _)
Replace(s, old, new) ==
    LET i == Find(s, old)
    IN  IF i = 0 THEN s
        ELSE Slice(s, 1, i - 1) \o new \o Replace(From(s, i + Len(old)), old, new)

\* str.count of a single character
Count(s, c) == Cardinality({i \in 1..Len(s) : s[i] = c})

RECURSIVE LStrip(_)
LStrip(s) == IF s # <<>> /\ IsSpace(s[1]) THEN LStrip(Tail(s)) ELSE s
RECURSIVE RStrip(_)
RStrip(s) == IF s # <<>> /\ IsSpace(s[Len(s)]) THEN RStrip(Slice(s, 1, Len(s) - 1)) ELSE s
\* str.strip()
Strip(s) == RStrip(LStrip(s))

\* str.split(sep) for a one-character sep: every occurrence separates
RECURSIVE SplitOn(_, _)
SplitOn(s, c) ==
    LET i == Find(s, <<c>>)
    IN  IF i = 0 THEN <<s>>
        ELSE <<Slice(s, 1, i - 1)>> \o SplitOn(From(s, i + 1), c)

\* str.split(sep, 1)
SplitOnce(s, c) ==
    LET i == Find(s, <<c>>)
    IN  IF i = 0 THEN <<s>> ELSE <<Slice(s, 1, i - 1), From(s, i + 1)>>

\* the length of the longest prefix of s made of characters for which the
\* set cls has them
RECURSIVE Span(_, _)
Span(s, cls) == IF s # <<>> /\ s[1] \in cls THEN 1 + Span(Tail(s), cls) ELSE 0

RECURSIVE NonSpaceSpan(_)
NonSpaceSpan(s) == IF s # <<>> /\ ~IsSpace(s[1]) THEN 1 + NonSpaceSpan(Tail(s)) ELSE 0

\* str.split(): the maximal runs of non-whitespace characters
RECURSIVE SplitWs(_)
SplitWs(s) ==
    LET t == LStrip(s)
        n == NonSpaceSpan(t)
    IN  IF t = <<>> THEN <<>>
        ELSE <<Slice(t, 1, n)>> \o SplitWs(From(t, n + 1))

---------------------------------------------------------------------------
(* float(str) *)

RECURSIVE DigitsValue(_)
DigitsValue(ds) ==
    IF ds = <<>> THEN 0
    ELSE 10 * DigitsValue(Slice(ds, 1, Len(ds) - 1)) + DigitVal(ds[Len(ds)])

RECURSIVE Pow10(_)
Pow10(k) == IF k = 0 THEN 1 ELSE 10 * Pow10(k - 1)

\* the value of the unsigned decimal literal  digits [ "." digits ]  or
\* "." digits, or ValueError
UnsignedFloat(t) ==
    LET n == Span(t, DigitChars)
        rest == From(t, n + 1)
        frac == IF rest # <<>> /\ rest[1] = "." THEN Tail(rest) ELSE <<>>
    IN  IF rest = <<>>
        THEN IF n = 0 THEN ValueError ELSE Rat(DigitsValue(t), 1)
        ELSE IF rest[1] # "." \/ Span(frac, DigitChars) # Len(frac) \/ n + Len(frac) = 0
        THEN ValueError
        ELSE Rat(DigitsValue(Slice(t, 1, n)) * Pow10(Len(frac)) + DigitsValue(frac),
                 Pow10(Len(frac)))

\* float(s) for the decimal literals the model's alphabet can spell: optional
\* surrounding whitespace, an optional sign, digits with an optional point
PyFloat(s) ==
    LET t == Strip(s)
        signed == t # <<>> /\ t[1] \in {"+", "-"}
        v == UnsignedFloat(IF signed THEN Tail(t) ELSE t)
    IN  IF v = ValueError THEN ValueError
        ELSE IF signed /\ t[1] = "-" THEN Rat(0 - v[1], v[2]) ELSE v

\* re.search(r'(\d+\.?\d*)', s).group(1), or None when nothing matches
NumberSearch(s) ==
    IF \A i \in 1..Len(s) : s[i] \notin DigitChars THEN None
    ELSE LET i == CHOOSE k \in 1..Len(s) :
                     s[k] \in DigitChars /\ \A j \in 1..(k - 1) : s[j] \notin DigitChars
             t == From(s, i)
             n == Span(t, DigitChars)
             dot == n < Len(t) /\ t[n + 1] = "."
             m == IF dot THEN Span(From(t, n + 2), DigitChars) ELSE 0
         IN  Slice(t, 1, n + (IF dot THEN 1 + m ELSE 0))

---------------------------------------------------------------------------
(* paddle_scraper.extract_float and data_models.extract_float *)

\* "except (...): pass": an exception of one of the classes ends the block
\* without a return; any other outcome is the block's
Catch(outcome, classes) == IF outcome \in classes THEN NoReturn ELSE outcome

\* float(x) / float(y): both operands are converted, then divided
FloatQuotient(x, y) ==
    LET num == PyFloat(x)
        den == PyFloat(y)
    IN  IF num = ValueError \/ den = ValueError THEN ValueError ELSE RatDiv(num, den)

\* the text with the unit words removed (paddle_scraper.py line 121)
StripUnits(text) ==
    Strip(Replace(Replace(Replace(text, <<"i","n">>, <<>>), <<"o","z">>, <<>>), <<"o","u","n","c","e","s">>, <<>>))

\* the try block of the mixed-number rule, on text.split() of two parts
MixedNumberTry(parts) ==
    LET whole == PyFloat(parts[1])
        frac_parts == SplitOn(parts[2], "/")
    IN  IF whole = ValueError THEN ValueError
        ELSE IF ~Contains(parts[2], <<"/">>) \/ Len(frac_parts) # 2 THEN NoReturn
        ELSE LET fraction == FloatQuotient(frac_parts[1], frac_parts[2])
             IN  IF fraction \in Exceptions THEN fraction ELSE RatAdd(whole, fraction)

\* "Handle mixed numbers like 4 1/4"
MixedNumber(text) ==
    IF Contains(text, <<" ">>) /\ Len(SplitWs(text)) = 2
    THEN Catch(MixedNumberTry(SplitWs(text)), {ValueError, ZeroDivisionError})
    ELSE NoReturn

SimpleFractionNoZeroCatch(text) ==
    IF Contains(text, <<"/">>) /\ Count(text, "/") = 1
    THEN Catch(FloatQuotient(SplitOn(text, "/")[1], SplitOn(text, "/")[2]), {ValueError})
    ELSE NoReturn

\* "Handle simple fractions like 1/4"
SimpleFraction(text) ==
    IF Contains(text, <<"/">>) /\ Count(text, "/") = 1
    THEN Catch(FloatQuotient(SplitOn(text, "/")[1], SplitOn(text, "/")[2]),
               {ValueError, ZeroDivisionError})
    ELSE NoReturn

\* "Handle regular numbers"
RegularNumber(text) ==
    IF NumberSearch(text) = None THEN NoReturn
    ELSE Catch(PyFloat(NumberSearch(text)), {ValueError})

\* paddle_scraper.extract_float
PS_extract_float(text) ==
    IF text = None \/ text = <<>> THEN None
    ELSE LET t == StripUnits(text)
         IN  IF MixedNumber(t) # NoReturn THEN MixedNumber(t)
             ELSE IF SimpleFraction(t) # NoReturn THEN SimpleFraction(t)
             ELSE IF RegularNumber(t) # NoReturn THEN RegularNumber(t)
             ELSE None

\* data_models.extract_float
DM_extract_float(text) ==
    IF text = None \/ text = <<>> THEN None
    ELSE IF NumberSearch(text) = None THEN None
    ELSE PyFloat(NumberSearch(text))

---------------------------------------------------------------------------
(* The numeric normalizer applied to bounded texts *)

DigitChar(d) == CHOOSE c \in DigitChars : DigitVal(c) = d

RECURSIVE DecimalText(_)
DecimalText(n) ==
    IF n < 10 THEN <<DigitChar(n)>> ELSE DecimalText(n \div 10) \o <<DigitChar(n % 10)>>

\* the largest whole number spelled in an operand
MaxNum == 4

\* operands with a value: n and n.5
NumOperands ==
    {[text |-> DecimalText(n), val |-> Rat(n, 1)] : n \in 0..MaxNum}
    \cup {[text |-> DecimalText(n) \o <<".","5">>, val |-> Rat(2 * n + 1, 2)] : n \in 0..MaxNum}
\* operands without one
JunkOperands == {[text |-> <<>>, val |-> None], [text |-> <<"x">>, val |-> None],
                 [text |-> <<".">>, val |-> None]}
Operands == NumOperands \cup JunkOperands
Separators == {<<>>, <<" ">>, <<"/">>, <<"-">>}
\* the unit words of which line 121 leaves nothing, with and without a space
\* before
StrippedUnits == {<<>>, <<"i","n">>, <<" ","o","z">>, <<" ","o","u","n","c","e","s">>}
\* and two of which it leaves a word: "mm" is not replaced, "inches" loses
\* its "in" only
Units == StrippedUnits \cup {<<" ","m","m">>, <<" ","i","n","c","h","e","s">>}

\* texts  a sep1 b sep2 c unit
FloatInputs ==
    [a : Operands, sep1 : Separators, b : Operands, sep2 : Separators,
     c : Operands, unit : Units]

TextOf(in) == in.a.text \o in.sep1 \o in.b.text \o in.sep2 \o in.c.text \o in.unit

InitFloat ==
    /\ fl_in \in FloatInputs
    /\ fl_text = TextOf(fl_in)
    /\ fl_ps = None
    /\ fl_dm = None
    /\ fl_pc = "call"

IdleFloat ==
    /\ fl_in = None
    /\ fl_text = None
    /\ fl_ps = None
    /\ fl_dm = None
    /\ fl_pc = "idle"

\* a call of paddle_scraper.extract_float(fl_text)
CallPSExtractFloat ==
    /\ fl_pc = "call"
    /\ fl_ps' = PS_extract_float(fl_text)
    /\ fl_pc' = "ps"
    /\ UNCHANGED <<fl_in, fl_text, fl_dm>>
    /\ UNCHANGED notFloatVars

\* a call of data_models.extract_float(fl_text)
CallDMExtractFloat ==
    /\ fl_pc = "ps"
    /\ fl_dm' = DM_extract_float(fl_text)
    /\ fl_pc' = "done"
    /\ UNCHANGED <<fl_in, fl_text, fl_ps>>
    /\ UNCHANGED notFloatVars

NextFloat == CallPSExtractFloat \/ CallDMExtractFloat

---------------------------------------------------------------------------
(* Claims about the numeric normalizer (checked under SpecFloat) *)

FloatReturned == fl_pc \in {"ps", "done"}

\* the text is  a b/c  alone or followed by a unit word
IsMixedNumber(in) ==
    /\ in.a \in NumOperands /\ in.sep1 = <<" ">>
    /\ in.b \in NumOperands /\ in.sep2 = <<"/">>
    /\ in.c \in NumOperands /\ in.unit \in Units

\* the text is  b/c  followed by such a unit word
IsBareFraction(in) ==
    /\ in.a.text = <<>> /\ in.sep1 = <<>>
    /\ in.b \in NumOperands /\ in.sep2 = <<"/">>
    /\ in.c \in NumOperands /\ in.unit \in StrippedUnits

\* the text is  lo-hi  followed by such a unit word
IsRange(in) ==
    /\ in.a.text = <<>> /\ in.sep1 = <<>>
    /\ in.b \in NumOperands /\ in.sep2 = <<"-">>
    /\ in.c \in NumOperands /\ in.unit \in StrippedUnits

\* C4: for a mixed number "a b/c" with c # 0, alone or followed by a unit
\* suffix (in, oz, ounces, mm, inches), paddle_scraper.extract_float returns
\* a + b/c and not the whole part a
C4_MixedNumberValue ==
    (FloatReturned /\ IsMixedNumber(fl_in) /\ fl_in.c.val[1] # 0)
        => fl_ps = RatAdd(fl_in.a.val, RatDiv(fl_in.b.val, fl_in.c.val))

\* the same for the unit words of which line 121 leaves nothing
MixedNumberValueStrippedUnits ==
    (FloatReturned /\ IsMixedNumber(fl_in) /\ fl_in.unit \in StrippedUnits
       /\ fl_in.c.val[1] # 0)
        => fl_ps = RatAdd(fl_in.a.val, RatDiv(fl_in.b.val, fl_in.c.val))

\* extract_float("4 1/4in") has returned 4.25
MixedNumberWithStrippedUnit ==
    /\ fl_pc = "done" /\ IsMixedNumber(fl_in)
    /\ fl_text = <<"4"," ","1","/","4","i","n">>
    /\ fl_ps = <<17, 4>>

\* extract_float("4 1/4 mm") has returned the whole part, 4.0
MixedNumberWithKeptUnit ==
    /\ fl_pc = "done" /\ IsMixedNumber(fl_in)
    /\ fl_text = <<"4"," ","1","/","4"," ","m","m">>
    /\ fl_ps = <<4, 1>>

\* a fraction shape (mixed or bare) one of whose parts is zero or not a number
HasBadFraction(in) ==
    /\ in.sep2 = <<"/">> /\ in.unit \in StrippedUnits
    /\ \/ in.a \in NumOperands /\ in.sep1 = <<" ">>
       \/ in.a.text = <<>> /\ in.sep1 = <<>>
    /\ \/ in.c.val = Rat(0, 1) /\ in.b \in NumOperands
       \/ in.c.text \in {<<"x">>, <<".">>} /\ in.b \in NumOperands
       \/ in.b.text \in {<<"x">>, <<".">>} /\ in.c \in NumOperands

\* C5: for a mixed number or bare fraction with a zero denominator or a part
\* that is not a number, paddle_scraper.extract_float returns None
C5_BadFractionIsMissing ==
    (FloatReturned /\ HasBadFraction(fl_in)) => fl_ps = None

\* C6: for a range "lo-hi", optionally followed by a unit, extract_float
\* returns (lo + hi) / 2, and None when a bound is not a number
C6_RangeIsMean ==
    /\ (FloatReturned /\ IsRange(fl_in))
          => fl_ps = RatDiv(RatAdd(fl_in.b.val, fl_in.c.val), Rat(2, 1))
    /\ (FloatReturned /\ fl_in.a.text = <<>> /\ fl_in.sep1 = <<>> /\ fl_in.sep2 = <<"-">>
          /\ fl_in.unit \in StrippedUnits
          /\ (fl_in.b.text \in {<<"x">>, <<".">>} \/ fl_in.c.text \in {<<"x">>, <<".">>}))
          => fl_ps = None

HasNoDigit(text) == \A i \in 1..Len(text) : text[i] \notin DigitChars
IsFloatOrNone(v) == v = None \/ (Len(v) = 2 /\ v[1] \in Int /\ v[2] \in Nat \ {0})

\* C7: both extract_float functions return a float or None and never raise;
\* they return None for an empty text, a whitespace-only text and a text in
\* which no numeric rule matches (one without a digit)
C7_NeverRaises ==
    /\ FloatReturned => (fl_ps \notin Exceptions /\ IsFloatOrNone(fl_ps))
    /\ fl_pc = "done" => (fl_dm \notin Exceptions /\ IsFloatOrNone(fl_dm))
    /\ (FloatReturned /\ HasNoDigit(fl_text)) => fl_ps = None
    /\ (fl_pc = "done" /\ HasNoDigit(fl_text)) => fl_dm = None

\* extract_float("x/.") met a ValueError in the fraction rule and returned None
C7_Witness ==
    /\ fl_pc = "done"
    /\ fl_text = <<"x","/",".">>
    /\ fl_ps = None /\ fl_dm = None

---------------------------------------------------------------------------
(* data_models.clean_model_name *)

\* the characters of the class [|│｜︱丨｜] (line 72); the four that are not
\* ASCII are written by their code points
PipeChars == {"|", "U+2502", "U+FF5C", "U+FE31", "U+4E28"}

\* re.sub(r'\s*\|\s*.*$', '', model) on a one-line text: everything from the
\* whitespace before the first ASCII pipe is removed
TruncateAtPipe(model) ==
    IF Find(model, <<"|">>) = 0 THEN model
    ELSE RStrip(Slice(model, 1, Find(model, <<"|">>) - 1))

\* a truncation at the first pipe-like character of any kind
TruncateAtAnyPipe(model) ==
    IF \A i \in 1..Len(model) : model[i] \notin PipeChars THEN model
    ELSE LET i == CHOOSE k \in 1..Len(model) :
                     model[k] \in PipeChars /\ \A j \in 1..(k - 1) : model[j] \notin PipeChars
         IN  RStrip(Slice(model, 1, i - 1))

\* re.sub(r'[|│｜︱丨｜]+', '', model)
RemovePipeChars(model) == SelectSeq(model, LAMBDA c : c \notin PipeChars)

unwanted_suffixes ==
    << <<"P","i","c","k","l","e","b","a","l","l"," ","P","a","d","d","l","e">>, <<"P","a","d","d","l","e">>, <<" ","-"," ","P","B","C">>, <<" ","-"," ","N","E","W">>,
       <<" ","-"," ","L","i","m","i","t","e","d"," ","E","d","i","t","i","o","n">>, <<" ","-"," ","L","E">>, <<" ","-">>, <<"|">>, <<"U+2502">>,
       <<" ","-"," ","E","l","o","n","g","a","t","e","d">>, <<" ","-"," ","S","t","a","n","d","a","r","d">>, <<" ","-"," ","T","e","a","r","d","r","o","p">> >>

\* the loop over unwanted_suffixes from index i on: each suffix is tried once,
\* in list order, against the current end of the text
RECURSIVE StripSuffixes(_, _)
StripSuffixes(model, i) ==
    IF i > Len(unwanted_suffixes) THEN model
    ELSE IF EndsWith(model, unwanted_suffixes[i])
    THEN StripSuffixes(Strip(Slice(model, 1, Len(model) - Len(unwanted_suffixes[i]))), i + 1)
    ELSE StripSuffixes(model, i + 1)

\* the length of a match of \s*\([^)]*\)\s* at the start of s, 0 when none
ParenMatchLen(s) ==
    LET k == Span(s, {" ", "\t", "\n"})
        rest == From(s, k + 1)
        close == Find(rest, <<")">>)
    IN  IF rest = <<>> \/ rest[1] # "(" \/ close = 0 THEN 0
        ELSE k + close + Span(From(rest, close + 1), {" ", "\t", "\n"})

\* re.sub(r'\s*\([^)]*\)\s*', ' ', s)
RECURSIVE ReplaceParens(_)
ReplaceParens(s) ==
    IF s = <<>> THEN <<>>
    ELSE IF ParenMatchLen(s) > 0
    THEN <<" ">> \o ReplaceParens(From(s, ParenMatchLen(s) + 1))
    ELSE <<s[1]>> \o ReplaceParens(Tail(s))

common_descriptors == << <<"N","e","w">>, <<"N","E","W">>, <<"L","i","m","i","t","e","d"," ","E","d","i","t","i","o","n">>, <<"S","A","L","E">>, <<"I","n"," ","S","t","o","c","k">> >>

\* \bword\b matches at position i of s, ignoring case
WordAt(s, i, word) ==
    /\ MatchAt(Lower(s), i, Lower(word))
    /\ i = 1 \/ ~IsWordChar(s[i - 1])
    /\ i + Len(word) > Len(s) \/ ~IsWordChar(s[i + Len(word)])

\* re.sub(rf'\b{word}\b', '', s, flags=re.IGNORECASE), from position i on
RECURSIVE RemoveWordFrom(_, _, _)
RemoveWordFrom(s, i, word) ==
    IF i > Len(s) THEN <<>>
    ELSE IF WordAt(s, i, word) THEN RemoveWordFrom(s, i + Len(word), word)
    ELSE <<s[i]>> \o RemoveWordFrom(s, i + 1, word)

\* the loop over common_descriptors from index i on
RECURSIVE RemoveDescriptors(_, _)
RemoveDescriptors(model, i) ==
    IF i > Len(common_descriptors) THEN model
    ELSE RemoveDescriptors(RemoveWordFrom(model, 1, common_descriptors[i]), i + 1)

\* re.sub(r'\s+', ' ', s)
RECURSIVE CollapseSpaces(_)
CollapseSpaces(s) ==
    IF s = <<>> THEN <<>>
    ELSE IF IsSpace(s[1]) THEN <<" ">> \o CollapseSpaces(LStrip(s))
    ELSE <<s[1]>> \o CollapseSpaces(Tail(s))

clean_model_name(model) ==
    IF model = None \/ model = <<>> THEN model
    ELSE LET truncated == RemovePipeChars(TruncateAtPipe(model))
             stripped == StripSuffixes(truncated, 1)
             plain == Strip(ReplaceParens(stripped))
         IN  Strip(CollapseSpaces(RemoveDescriptors(plain, 1)))

---------------------------------------------------------------------------
(* The name cleaner applied to bounded names *)

\* the number of pieces a raw name is spelled from
MaxNamePieces == 4

NamePieces ==
    { <<"X">>, <<"P","r","o">>, <<" ">>, <<" ","P","a","d","d","l","e">>, <<" ","S","A","L","E">>, <<" ","|"," ">>, <<" ", "U+2502", " ">>,
      <<" ","(","a",")">>, <<" ","-"," ","L","E">>, <<" ","N","e","w">> }

RECURSIVE Flatten(_)
Flatten(pieces) == IF pieces = <<>> THEN <<>> ELSE Head(pieces) \o Flatten(Tail(pieces))

NameInputs == UNION {[1..n -> NamePieces] : n \in 0..MaxNamePieces}

InitName ==
    /\ nm_raw \in {Flatten(p) : p \in NameInputs}
    /\ nm_clean = None
    /\ nm_clean2 = None
    /\ nm_pc = "call"

IdleName ==
    /\ nm_raw = None
    /\ nm_clean = None
    /\ nm_clean2 = None
    /\ nm_pc = "idle"

\* clean_model_name(nm_raw)
CallCleanModelName ==
    /\ nm_pc = "call"
    /\ nm_clean' = clean_model_name(nm_raw)
    /\ nm_pc' = "cleaned"
    /\ UNCHANGED <<nm_raw, nm_clean2>>
    /\ UNCHANGED notNameVars

\* clean_model_name applied to its own output
CallCleanModelNameAgain ==
    /\ nm_pc = "cleaned"
    /\ nm_clean2' = clean_model_name(nm_clean)
    /\ nm_pc' = "recleaned"
    /\ UNCHANGED <<nm_raw, nm_clean>>
    /\ UNCHANGED notNameVars

NextName == CallCleanModelName \/ CallCleanModelNameAgain

---------------------------------------------------------------------------
(* Claims about the name cleaner (checked under SpecName) *)

\* C8: clean_model_name is idempotent: cleaning a cleaned name changes nothing
C8_CleanIdempotent == nm_pc = "recleaned" => nm_clean2 = nm_clean

\* C9: clean_model_name truncates at the first pipe-like character, ASCII or
\* not: the result is that of cleaning what precedes it
C9_TruncatesAtAnyPipe ==
    nm_pc \in {"cleaned", "recleaned"}
        => nm_clean = clean_model_name(TruncateAtAnyPipe(nm_raw))

---------------------------------------------------------------------------
(* data_models.determine_paddle_shape_from_length, normalize_paddle_shape *)

Elongated == <<"E","l","o","n","g","a","t","e","d">>
Hybrid == <<"H","y","b","r","i","d">>
WideBody == <<"W","i","d","e","-","b","o","d","y">>
CanonicalShapes == {Elongated, Hybrid, WideBody}

\* a Hybrid threshold that excludes 16.25 itself
ShapeFromLengthExclusiveHybrid(paddle_length) ==
    IF RatGeq(paddle_length, Rat(33, 2)) THEN Elongated
    ELSE IF ~RatGeq(Rat(65, 4), paddle_length) THEN Hybrid
    ELSE WideBody

determine_paddle_shape_from_length(paddle_length) ==
    IF RatGeq(paddle_length, Rat(33, 2)) THEN Elongated       \* >= 16.5
    ELSE IF RatGeq(paddle_length, Rat(65, 4)) THEN Hybrid     \* >= 16.25
    ELSE WideBody

\* the dict shape_mapping; a key that is absent maps to None
shape_mapping(key) ==
    CASE key \in {<<"e","l","o","n","g","a","t","e","d">>, <<"e","l","o","n","g","a","t","e","d"," ","s","h","a","p","e">>, <<"l","o","n","g">>} -> Elongated
      [] key \in {<<"h","y","b","r","i","d">>, <<"h","y","b","r","i","d"," ","s","h","a","p","e">>} -> Hybrid
      [] key \in {<<"w","i","d","e","-","b","o","d","y">>, <<"w","i","d","e","b","o","d","y">>, <<"w","i","d","e"," ","b","o","d","y">>, <<"s","t","a","n","d","a","r","d">>,
                  <<"t","e","a","r","d","r","o","p">>, <<"t","r","a","d","i","t","i","o","n","a","l">>, <<"c","l","a","s","s","i","c">>, <<>>} -> WideBody
      [] OTHER -> None

normalize_paddle_shape(shape) ==
    IF shape = None \/ shape = <<>> THEN WideBody
    ELSE IF shape_mapping(Strip(Lower(shape))) = None THEN WideBody
    ELSE shape_mapping(Strip(Lower(shape)))

---------------------------------------------------------------------------
(* The shape classifier applied to bounded lengths and labels *)

\* lengths are multiples of 1/8 inch up to this many eighths
MaxLengthEighths == 160

ShapeLabels ==
    { <<>>, <<"E","l","o","n","g","a","t","e","d">>, <<" ","H","y","b","r","i","d"," ">>, <<"H","Y","B","R","I","D"," ","S","H","A","P","E">>, <<"W","i","d","e","-","b","o","d","y">>, <<"W","i","d","e"," ","B","o","d","y">>,
      <<"S","t","a","n","d","a","r","d">>, <<"T","e","a","r","d","r","o","p">>, <<"l","o","n","g">>, <<"R","o","u","n","d">>, <<"E","l","o","n","g","a","t","e","d"," ","H","y","b","r","i","d">> }

InitShape ==
    /\ sh_length \in {Rat(n, 8) : n \in 0..MaxLengthEighths}
    /\ sh_label \in ShapeLabels
    /\ sh_shape = None
    /\ sh_norm = None
    /\ sh_pc = "call"

IdleShape ==
    /\ sh_length = None
    /\ sh_label = None
    /\ sh_shape = None
    /\ sh_norm = None
    /\ sh_pc = "idle"

\* determine_paddle_shape_from_length(sh_length) followed by
\* normalize_paddle_shape of its result, as both adapters call them
CallShapeFromLength ==
    /\ sh_pc = "call"
    /\ sh_shape' = determine_paddle_shape_from_length(sh_length)
    /\ sh_norm' = normalize_paddle_shape(determine_paddle_shape_from_length(sh_length))
    /\ sh_pc' = "done"
    /\ UNCHANGED <<sh_length, sh_label>>
    /\ UNCHANGED notShapeVars

\* normalize_paddle_shape(sh_label) of a free-text label
CallNormalizeLabel ==
    /\ sh_pc = "call"
    /\ sh_shape' = sh_label
    /\ sh_norm' = normalize_paddle_shape(sh_label)
    /\ sh_pc' = "normalized"
    /\ UNCHANGED <<sh_length, sh_label>>
    /\ UNCHANGED notShapeVars

NextShape == CallShapeFromLength \/ CallNormalizeLabel

---------------------------------------------------------------------------
(* Claims about the shape classifier (checked under SpecShape) *)

\* C2: determine_paddle_shape_from_length(L) is Elongated when L >= 16.5,
\* Hybrid when 16.25 <= L < 16.5 and Wide-body when L < 16.25, and
\* normalize_paddle_shape returns that result unchanged
C2_ShapeThresholds ==
    sh_pc = "done" =>
        /\ 2 * sh_length[1] >= 33 * sh_length[2] => sh_shape = <<"E","l","o","n","g","a","t","e","d">>
        /\ (4 * sh_length[1] >= 65 * sh_length[2] /\ 2 * sh_length[1] < 33 * sh_length[2])
              => sh_shape = <<"H","y","b","r","i","d">>
        /\ 4 * sh_length[1] < 65 * sh_length[2] => sh_shape = <<"W","i","d","e","-","b","o","d","y">>
        /\ sh_norm = sh_shape

\* a length of exactly 16.25 has been classified Hybrid and normalized to it
C2_Witness ==
    /\ sh_pc = "done"
    /\ sh_length = <<65, 4>>
    /\ sh_shape = <<"H","y","b","r","i","d">>
    /\ sh_norm = <<"H","y","b","r","i","d">>

---------------------------------------------------------------------------
(* generate_paddle_id (data_models.py and paddle_scraper.py hold the same code) *)

generate_paddle_id(brand, model) ==
    Replace(Lower(brand), <<" ">>, <<"-">>) \o <<"-">> \o Replace(Lower(model), <<" ">>, <<"-">>)

---------------------------------------------------------------------------
(* The identity assigner applied to bounded brands and models *)

\* the most characters of a brand and a model together
MaxIdLen == 3

IdChars == {"a", "A", " ", "-", "\t"}
IdTexts(n) == UNION {[1..k -> IdChars] : k \in 0..n}

\* lower case, each space character a hyphen
Slug(s) == [i \in 1..Len(s) |-> IF s[i] = " " THEN "-" ELSE LowerOf(s[i])]

\* lower case, each whitespace character a hyphen
WhitespaceSlug(s) == [i \in 1..Len(s) |-> IF IsSpace(s[i]) THEN "-" ELSE LowerOf(s[i])]

\* the second (brand, model) pair of a comparison: a respelling of the first
\* (other case, whitespace for hyphen), or any pair of texts over "a" and "-"
IdPlainTexts(n) == UNION {[1..k -> {"a", "-"}] : k \in 0..n}
IdPairs ==
    {p \in IdTexts(MaxIdLen) \X IdTexts(MaxIdLen) : Len(p[1]) + Len(p[2]) <= MaxIdLen}
IdPlainPairs ==
    {p \in IdPlainTexts(MaxIdLen) \X IdPlainTexts(MaxIdLen) :
        Len(p[1]) + Len(p[2]) <= MaxIdLen}
IdSecondPairs(brand, model) ==
    {p \in IdPairs : /\ WhitespaceSlug(p[1]) = WhitespaceSlug(brand)
                     /\ WhitespaceSlug(p[2]) = WhitespaceSlug(model)}
    \cup IdPlainPairs

InitId ==
    /\ \E first \in IdPairs : id_brand = first[1] /\ id_model = first[2]
    /\ \E second \in IdSecondPairs(id_brand, id_model) :
          id_brand2 = second[1] /\ id_model2 = second[2]
    /\ id_out = None
    /\ id_out2 = None
    /\ id_pc = "call"

IdleId ==
    /\ id_brand = None /\ id_model = None
    /\ id_brand2 = None /\ id_model2 = None
    /\ id_out = None /\ id_out2 = None
    /\ id_pc = "idle"

CallGeneratePaddleId ==
    /\ id_pc = "call"
    /\ id_out' = generate_paddle_id(id_brand, id_model)
    /\ id_pc' = "first"
    /\ UNCHANGED <<id_brand, id_model, id_brand2, id_model2, id_out2>>
    /\ UNCHANGED notIdVars

CallGeneratePaddleIdAgain ==
    /\ id_pc = "first"
    /\ id_out2' = generate_paddle_id(id_brand2, id_model2)
    /\ id_pc' = "done"
    /\ UNCHANGED <<id_brand, id_model, id_brand2, id_model2, id_out>>
    /\ UNCHANGED notIdVars

NextId == CallGeneratePaddleId \/ CallGeneratePaddleIdAgain

---------------------------------------------------------------------------
(* Claims about the identity assigner (checked under SpecId) *)

\* C10: generate_paddle_id returns lower(brand) and lower(model), each with
\* its whitespace replaced by hyphens, joined by a hyphen; two pairs that are
\* equal after that normalization (they differ in case or in whitespace
\* versus hyphen only) get equal ids
C10_IdNormalForm ==
    /\ id_pc \in {"first", "done"}
          => id_out = WhitespaceSlug(id_brand) \o <<"-">> \o WhitespaceSlug(id_model)
    /\ (id_pc = "done" /\ WhitespaceSlug(id_brand2) = WhitespaceSlug(id_brand)
          /\ WhitespaceSlug(id_model2) = WhitespaceSlug(id_model))
          => id_out2 = id_out

\* the same with the space character (U+0020) as the only whitespace: every
\* other character, a tab included, is kept
IdNormalFormSpaces ==
    /\ id_pc \in {"first", "done"} => id_out = Slug(id_brand) \o <<"-">> \o Slug(id_model)
    /\ (id_pc = "done" /\ Slug(id_brand2) = Slug(id_brand) /\ Slug(id_model2) = Slug(id_model))
          => id_out2 = id_out

\* the models "A a" and "a-A", equal after normalization, have received the
\* same id
SpaceRespellingSameId ==
    /\ id_pc = "done"
    /\ id_model = <<"A"," ","a">> /\ id_model2 = <<"a","-","A">> /\ id_brand = id_brand2
    /\ id_out2 = id_out

\* the models "a\ta" and "a a", equal after normalization, have received
\* different ids
TabRespellingOtherId ==
    /\ id_pc = "done"
    /\ id_model = <<"a", "\t", "a">> /\ id_model2 = <<"a"," ","a">> /\ id_brand = id_brand2
    /\ id_out2 # id_out

\* C11: two (brand, model) pairs whose normalized brands or normalized models
\* differ never receive the same id
C11_NoCollision ==
    (id_pc = "done" /\ (Slug(id_brand) # Slug(id_brand2) \/ Slug(id_model) # Slug(id_model2)))
        => id_out # id_out2

---------------------------------------------------------------------------
(* Python dicts with text keys: functions on the set of keys present *)

EmptyDict == [k \in {} |-> None]
DictSet(d, key, value) == [k \in DOMAIN d \cup {key} |-> IF k = key THEN value ELSE d[k]]
HasKey(d, key) == key \in DOMAIN d

---------------------------------------------------------------------------
(* galaxy_scraper.PickleballGalaxyScraper.scrape_paddle: the specification *)
(* block, the dimensions and the shape                                     *)

\* the loop over the '.o-layout__item' texts (lines 270-278) from index i on
RECURSIVE CollectSpecs(_, _, _)
CollectSpecs(items, i, specs_data) ==
    IF i > Len(items) THEN specs_data
    ELSE IF Contains(items[i], <<":">>)
    THEN CollectSpecs(items, i + 1,
             DictSet(specs_data, Lower(Strip(SplitOnce(items[i], ":")[1])),
                     Strip(SplitOnce(items[i], ":")[2])))
    ELSE CollectSpecs(items, i + 1, specs_data)

\* lines 293-304
GalaxyLength(specs_data) ==
    IF HasKey(specs_data, <<"p","a","d","d","l","e"," ","l","e","n","g","t","h">>)
    THEN DM_extract_float(Strip(Replace(specs_data[<<"p","a","d","d","l","e"," ","l","e","n","g","t","h">>], <<"i","n">>, <<>>)))
    ELSE None

\* the try block of lines 315-321 on the two parts of a range
WeightRangeTry(weight_parts) ==
    LET min_weight == PyFloat(Strip(weight_parts[1]))
        max_weight == PyFloat(Strip(weight_parts[2]))
    IN  IF min_weight = ValueError \/ max_weight = ValueError THEN ValueError
        ELSE RatDiv(RatAdd(min_weight, max_weight), Rat(2, 1))

\* lines 306-329
GalaxyWeight(specs_data) ==
    IF ~HasKey(specs_data, <<"w","e","i","g","h","t">>) THEN None
    ELSE LET weight_str == Strip(Replace(specs_data[<<"w","e","i","g","h","t">>], <<"o","u","n","c","e","s">>, <<>>))
         IN  IF Contains(weight_str, <<"-">>)
             THEN IF Len(SplitOn(weight_str, "-")) = 2
                  THEN IF Catch(WeightRangeTry(SplitOn(weight_str, "-")), {ValueError}) = NoReturn
                       THEN None
                       ELSE WeightRangeTry(SplitOn(weight_str, "-"))
                  ELSE None
             ELSE DM_extract_float(weight_str)

\* lines 331-342
GalaxyWidth(specs_data) ==
    IF HasKey(specs_data, <<"p","a","d","d","l","e"," ","w","i","d","t","h">>)
    THEN DM_extract_float(Strip(Replace(specs_data[<<"p","a","d","d","l","e"," ","w","i","d","t","h">>], <<"i","n">>, <<>>)))
    ELSE None

\* lines 344-349: the shape is derived from the length, and only from it
GalaxyShape(length) ==
    IF Truthy(length)
    THEN normalize_paddle_shape(determine_paddle_shape_from_length(length))
    ELSE None

\* the material named in a lower-case text (lines 355-362 and 367-374), None
\* when it names none
SurfaceNamedIn(text) ==
    IF Contains(text, <<"f","i","b","e","r","g","l","a","s","s">>) THEN <<"F","i","b","e","r","g","l","a","s","s">>
    ELSE IF Contains(text, <<"c","a","r","b","o","n">>) /\ Contains(text, <<"f","i","b","e","r">>) THEN <<"C","a","r","b","o","n"," ","F","i","b","e","r">>
    ELSE IF Contains(text, <<"g","r","a","p","h","i","t","e">>) THEN <<"G","r","a","p","h","i","t","e">>
    ELSE IF Contains(text, <<"c","o","m","p","o","s","i","t","e">>) THEN <<"C","o","m","p","o","s","i","t","e">>
    ELSE None

\* lines 351-378
GalaxySurface(specs_data, specs_text) ==
    IF HasKey(specs_data, <<"s","u","r","f","a","c","e"," ","m","a","t","e","r","i","a","l">>)
    THEN IF SurfaceNamedIn(Lower(specs_data[<<"s","u","r","f","a","c","e"," ","m","a","t","e","r","i","a","l">>])) # None
         THEN SurfaceNamedIn(Lower(specs_data[<<"s","u","r","f","a","c","e"," ","m","a","t","e","r","i","a","l">>]))
         ELSE specs_data[<<"s","u","r","f","a","c","e"," ","m","a","t","e","r","i","a","l">>]
    ELSE SurfaceNamedIn(Lower(specs_text))

\* the length of the match of \d+\.?\d* at position i of s, 0 when none
NumberLenAt(s, i) ==
    LET t == From(s, i)
        n == Span(t, DigitChars)
    IN  IF i > Len(s) \/ n = 0 THEN 0
        ELSE IF n < Len(t) /\ t[n + 1] = "." THEN n + 1 + Span(From(t, n + 2), DigitChars)
        ELSE n

\* s from position i on is  \s* word : whitespace, then word in any case
SpacesThenWord(s, i, word) ==
    MatchAt(Lower(s), i + Span(From(s, i), {" ", "\t", "\n"}), word)

\* group 1 of re.search(r'(\d+\.?\d*)\s*mm\s*core', s, re.IGNORECASE), else None
SearchNumberMmCore(s) ==
    LET hit(i) == /\ NumberLenAt(s, i) > 0
                  /\ SpacesThenWord(s, i + NumberLenAt(s, i), <<"m","m">>)
                  /\ SpacesThenWord(s, i + NumberLenAt(s, i)
                                       + Span(From(s, i + NumberLenAt(s, i)), {" ", "\t", "\n"}) + 2,
                                    <<"c","o","r","e">>)
    IN  IF \E i \in 1..Len(s) : hit(i)
        THEN LET i == CHOOSE k \in 1..Len(s) : hit(k) /\ \A j \in 1..(k - 1) : ~hit(j)
             IN  Slice(s, i, i + NumberLenAt(s, i) - 1)
        ELSE None

\* group 1 of re.search(label + r'[:\s]*(\d+\.?\d*)', s, re.IGNORECASE) for a
\* lower-case label, else None
SearchLabelNumber(s, label) ==
    LET start(i) == i + Len(label) + Span(From(s, i + Len(label)), {":", " ", "\t", "\n"})
        hit(i) == MatchAt(Lower(s), i, label) /\ NumberLenAt(s, start(i)) > 0
    IN  IF \E i \in 1..Len(s) : hit(i)
        THEN LET i == CHOOSE k \in 1..Len(s) : hit(k) /\ \A j \in 1..(k - 1) : ~hit(j)
             IN  Slice(s, start(i), start(i) + NumberLenAt(s, start(i)) - 1)
        ELSE None

\* group 1 of re.search(r'(\d+\.?\d*)mm', s, re.IGNORECASE), else None
SearchNumberMm(s) ==
    LET hit(i) == NumberLenAt(s, i) > 0 /\ MatchAt(Lower(s), i + NumberLenAt(s, i), <<"m","m">>)
    IN  IF \E i \in 1..Len(s) : hit(i)
        THEN LET i == CHOOSE k \in 1..Len(s) : hit(k) /\ \A j \in 1..(k - 1) : ~hit(j)
             IN  Slice(s, i, i + NumberLenAt(s, i) - 1)
        ELSE None

\* strategy 1 for the core thickness: the structured entry (lines 382-386)
CoreFromSpecs(specs_data) ==
    IF HasKey(specs_data, <<"c","o","r","e"," ","t","h","i","c","k","n","e","s","s">>)
    THEN DM_extract_float(Strip(Replace(specs_data[<<"c","o","r","e"," ","t","h","i","c","k","n","e","s","s">>], <<"m","m">>, <<>>)))
    ELSE None

\* strategy 2: the first of the three patterns that matches the description
\* (lines 390-394)
CoreFromDescription(specs_text) ==
    IF SearchNumberMmCore(specs_text) # None THEN PyFloat(SearchNumberMmCore(specs_text))
    ELSE IF SearchLabelNumber(specs_text, <<"c","o","r","e"," ","t","h","i","c","k","n","e","s","s">>) # None
    THEN PyFloat(SearchLabelNumber(specs_text, <<"c","o","r","e"," ","t","h","i","c","k","n","e","s","s">>))
    ELSE IF SearchLabelNumber(specs_text, <<"c","o","r","e">>) # None
    THEN PyFloat(SearchLabelNumber(specs_text, <<"c","o","r","e">>))
    ELSE None

\* strategy 3: a thickness in the title (lines 398-400)
CoreFromTitle(title_text) ==
    IF SearchNumberMm(title_text) # None THEN PyFloat(SearchNumberMm(title_text)) ELSE None

\* the strategies with the title tried before the description
GalaxyCoreTitleFirst(specs_data, specs_text, title_text) ==
    IF Truthy(CoreFromSpecs(specs_data)) THEN CoreFromSpecs(specs_data)
    ELSE IF Truthy(CoreFromTitle(title_text)) THEN CoreFromTitle(title_text)
    ELSE IF Truthy(CoreFromDescription(specs_text)) THEN CoreFromDescription(specs_text)
    ELSE None

\* lines 380-405
GalaxyCore(specs_data, specs_text, title_text) ==
    IF Truthy(CoreFromSpecs(specs_data)) THEN CoreFromSpecs(specs_data)
    ELSE IF Truthy(CoreFromDescription(specs_text)) THEN CoreFromDescription(specs_text)
    ELSE IF Truthy(CoreFromTitle(title_text)) THEN CoreFromTitle(title_text)
    ELSE None

\* lines 407-418
GalaxyGripLength(specs_data) ==
    IF HasKey(specs_data, <<"h","a","n","d","l","e"," ","l","e","n","g","t","h">>)
       /\ Truthy(DM_extract_float(Strip(Replace(specs_data[<<"h","a","n","d","l","e"," ","l","e","n","g","t","h">>], <<"i","n">>, <<>>))))
    THEN DM_extract_float(Strip(Replace(specs_data[<<"h","a","n","d","l","e"," ","l","e","n","g","t","h">>], <<"i","n">>, <<>>)))
    ELSE None

\* lines 420-429
GalaxyGripType(specs_data) ==
    IF HasKey(specs_data, <<"f","a","c","t","o","r","y"," ","g","r","i","p">>) /\ specs_data[<<"f","a","c","t","o","r","y"," ","g","r","i","p">>] # <<>>
    THEN specs_data[<<"f","a","c","t","o","r","y"," ","g","r","i","p">>]
    ELSE None

\* lines 431-444: the footnote after '*' is cut off before the number is read
GalaxyGripCircumference(specs_data) ==
    LET grip_str == Strip(SplitOn(Strip(Replace(specs_data[<<"g","r","i","p"," ","s","i","z","e">>], <<"i","n">>, <<>>)), "*")[1])
    IN  IF HasKey(specs_data, <<"g","r","i","p"," ","s","i","z","e">>) /\ Truthy(DM_extract_float(grip_str))
        THEN DM_extract_float(grip_str)
        ELSE None

\* the title element found by the selectors, dropped when its text is
\* suspicious (lines 108-114)
GalaxyTitleElem(page) ==
    IF page.title_elem = None THEN None
    ELSE IF Strip(page.title_elem) = <<>> \/ Len(Strip(page.title_elem)) < 5
            \/ Lower(Strip(page.title_elem)) \in {<<"h","o","m","e">>, <<"p","r","o","d","u","c","t","s">>, <<"p","a","d","d","l","e","s">>}
    THEN None
    ELSE page.title_elem

\* title_text: the title element's, else the <title> up to its first " - ",
\* else "Unknown Product" (lines 116-131)
GalaxyTitleText(page) ==
    IF GalaxyTitleElem(page) # None THEN Strip(GalaxyTitleElem(page))
    ELSE IF page.head_title # None
    THEN IF Contains(Strip(page.head_title), <<" ","-"," ">>)
         THEN Strip(Slice(Strip(page.head_title), 1, Find(Strip(page.head_title), <<" ","-"," ">>) - 1))
         ELSE Strip(page.head_title)
    ELSE <<"U","n","k","n","o","w","n"," ","P","r","o","d","u","c","t">>

NavigationTitles == {<<"h","o","m","e">>, <<"p","r","o","d","u","c","t","s">>, <<"c","a","t","e","g","o","r","i","e","s">>, <<"p","a","d","d","l","e","s">>}

\* the paddle name spelled by the url's file name (lines 138-145), None when
\* the url has fewer than four parts or no '.html' file name
UrlPaddleName(url) ==
    LET url_parts == SplitOn(url, "/")
        url_filename == url_parts[Len(url_parts)]
    IN  IF Len(url_parts) > 3 /\ Contains(url_filename, <<".","h","t","m","l">>)
        THEN Title(Replace(Slice(url_filename, 1, Find(url_filename, <<".","h","t","m","l">>) - 1),
                           <<"-">>, <<" ">>))
        ELSE None

\* title_text after the url fallback (lines 138-150)
GalaxyTitle(page) ==
    IF UrlPaddleName(page.url) # None
       /\ (Len(GalaxyTitleText(page)) < 10
           \/ Lower(GalaxyTitleText(page)) \in {<<"h","o","m","e">>, <<"p","r","o","d","u","c","t","s">>, <<"p","a","d","d","l","e","s">>})
    THEN UrlPaddleName(page.url)
    ELSE GalaxyTitleText(page)

common_brands ==
    << <<"S","e","l","k","i","r","k"," ","L","a","b","s">>, <<"S","e","l","k","i","r","k">>, <<"E","n","g","a","g","e">>, <<"J","o","o","l","a">>, <<"P","a","d","d","l","e","t","e","k">>, <<"G","e","a","r","b","o","x">>,
       <<"F","r","a","n","k","l","i","n">>, <<"C","R","B","N">>, <<"D","i","a","d","e","m">>, <<"H","E","A","D">>, <<"G","a","m","m","a">>, <<"P","l","a","y","e","r","s">>,
       <<"a","d","i","d","a","s">>, <<"A","d","i","d","a","s">>, <<"O","n","e","S","h","o","t">>, <<"E","l","e","c","t","r","u","m">>, <<"S","L","K">>, <<"L","e","g","a","c","y"," ","P","r","o">>, <<"R","o","k","n","e">>,
       <<"B","a","b","o","l","a","t">>, <<"T","M","P","R">>, <<"P","i","c","k","l","e","b","a","l","l"," ","A","p","e","s">>, <<"P","r","o","K","e","n","n","e","x">>, <<"V","u","l","c","a","n">>,
       <<"W","i","l","s","o","n">>, <<"O","n","i","x">>, <<"P","r","i","n","c","e">>, <<"R","a","l","l","y">>, <<"P","R","O","L","I","T","E">>, <<"P","r","o","-","L","i","t","e">> >>

\* the loop of lines 163-175 from brand i on: the first brand of the list the
\* title starts with or holds as a word, None when there is none
RECURSIVE BrandInTitle(_, _)
BrandInTitle(title_text, i) ==
    IF i > Len(common_brands) THEN None
    ELSE IF StartsWith(Lower(title_text), Lower(common_brands[i]))
            \/ \E k \in 1..Len(title_text) : WordAt(title_text, k, common_brands[i])
    THEN common_brands[i]
    ELSE BrandInTitle(title_text, i + 1)

\* the first word of the title, or its first two words (lines 178-191)
BrandFromWords(title_text, url) ==
    LET words == SplitWs(title_text)
        two_word_brand == words[1] \o <<" ">> \o words[2]
    IN  IF Len(words) = 0 THEN None
        ELSE IF Len(words) >= 2
                /\ (Contains(Lower(url), Replace(Lower(two_word_brand), <<" ">>, <<"-">>))
                    \/ \E b \in 1..Len(common_brands) :
                          Contains(Lower(common_brands[b]), Lower(two_word_brand)))
        THEN two_word_brand
        ELSE words[1]

\* brand before the check against the list of known brands (lines 160-197)
ExtractedBrand(title_text, url) ==
    IF BrandInTitle(title_text, 1) # None THEN BrandInTitle(title_text, 1)
    ELSE IF BrandFromWords(title_text, url) # None THEN BrandFromWords(title_text, url)
    ELSE <<"U","n","k","n","o","w","n">>

\* the loop of lines 205-210: the first known brand spelled in the url
RECURSIVE BrandInUrl(_, _)
BrandInUrl(url, i) ==
    IF i > Len(common_brands) THEN None
    ELSE IF Contains(Lower(url), Replace(Lower(common_brands[i]), <<" ">>, <<"-">>))
    THEN common_brands[i]
    ELSE BrandInUrl(url, i + 1)

\* brand (lines 160-214)
GalaxyBrand(title_text, url) ==
    LET brand == ExtractedBrand(title_text, url)
    IN  IF /\ brand # <<"U","n","k","n","o","w","n">>
           /\ ~(\E b \in 1..Len(common_brands) : Lower(brand) = Lower(common_brands[b]))
           /\ BrandInUrl(url, 1) # None
        THEN BrandInUrl(url, 1)
        ELSE brand

\* re.compile(f"^{brand}\\s+", re.IGNORECASE).sub("", model)
RemoveLeadingBrand(model, brand) ==
    IF MatchAt(Lower(model), 1, Lower(brand))
       /\ Span(From(model, Len(brand) + 1), {" ", "\t", "\n"}) > 0
    THEN From(model, Len(brand) + 1 + Span(From(model, Len(brand) + 1), {" ", "\t", "\n"}))
    ELSE model

common_suffixes ==
    << <<"P","i","c","k","l","e","b","a","l","l"," ","P","a","d","d","l","e">>, <<"P","a","d","d","l","e">>, <<"P","i","c","k","l","e","b","a","l","l">>,
       <<"(","E","l","o","n","g","a","t","e","d",")">>, <<"E","l","o","n","g","a","t","e","d">>, <<"(","S","t","a","n","d","a","r","d",")">>, <<"S","t","a","n","d","a","r","d">>,
       <<"(","L","i","g","h","t","w","e","i","g","h","t",")">>, <<"L","i","g","h","t","w","e","i","g","h","t">> >>

\* the loop of lines 230-232 from suffix i on
RECURSIVE RemoveCommonSuffixes(_, _)
RemoveCommonSuffixes(model, i) ==
    IF i > Len(common_suffixes) THEN model
    ELSE IF EndsWith(Lower(model), Lower(common_suffixes[i]))
    THEN RemoveCommonSuffixes(
             Strip(Slice(model, 1, Len(model) - Len(common_suffixes[i]))), i + 1)
    ELSE RemoveCommonSuffixes(Strip(model), i + 1)

source_names == << <<"P","i","c","k","l","e","b","a","l","l"," ","G","a","l","a","x","y">>, <<"P","i","c","k","l","e","b","a","l","l"," ","C","e","n","t","r","a","l">>, <<"P","i","c","k","l","e","b","a","l","l">> >>

\* the loop of lines 244-245 from source i on
RECURSIVE RemoveSourceNames(_, _)
RemoveSourceNames(model, i) ==
    IF i > Len(source_names) THEN model
    ELSE RemoveSourceNames(Strip(RemoveWordFrom(model, 1, source_names[i])), i + 1)

\* model before the placeholder (lines 217-254): the empty text when nothing
\* of the title is left
ExtractedModel(title_text, brand) ==
    LET unbranded == IF brand # <<"U","n","k","n","o","w","n">> THEN Strip(RemoveLeadingBrand(title_text, brand))
                     ELSE title_text
        unsuffixed == RemoveCommonSuffixes(unbranded, 1)
        plain == Strip(CollapseSpaces(Strip(ReplaceParens(unsuffixed))))
    IN  Strip(CollapseSpaces(clean_model_name(RemoveSourceNames(plain, 1))))

\* model (lines 217-261)
GalaxyModel(title_text, brand) ==
    IF ExtractedModel(title_text, brand) = <<>> THEN <<"U","n","k","n","o","w","n"," ","M","o","d","e","l">>
    ELSE ExtractedModel(title_text, brand)

\* the url of a priority 1-3 image element when its src passes the filter
\* (lines 499-556), None when the element or its src is missing or filtered out
ImageCandidate(src) ==
    IF src = None \/ src = <<>> THEN None
    ELSE IF StartsWith(src, <<"g","r","a","p","h","i","c","s","/">>) /\ ~EndsWith(src, <<"b","l","a","n","k",".","g","i","f">>)
            /\ ~Contains(Lower(src), <<"l","o","g","o">>) /\ ~Contains(Lower(src), <<"h","e","a","d","e","r">>)
            /\ ~Contains(Lower(src), <<"b","a","n","n","e","r">>)
    THEN <<"h","t","t","p","s",":","/","/","w","w","w",".","p","i","c","k","l","e","b","a","l","l","g","a","l","a","x","y",".","c","o","m","/","m","m","5","/">> \o src
    ELSE None

\* priority 4 (lines 559-576): the first product-sized 'graphics' image from
\* index i on
RECURSIVE GraphicsImage(_, _)
GraphicsImage(srcs, i) ==
    IF i > Len(srcs) THEN None
    ELSE IF StartsWith(srcs[i], <<"g","r","a","p","h","i","c","s","/">>) /\ ~EndsWith(srcs[i], <<"b","l","a","n","k",".","g","i","f">>)
            /\ ~EndsWith(srcs[i], <<"_","8","0","x","8","0",".","j","p","g">>) /\ ~EndsWith(srcs[i], <<"_","8","0","x","8","0",".","p","n","g">>)
            /\ ~Contains(Lower(srcs[i]), <<"l","o","g","o">>) /\ ~Contains(Lower(srcs[i]), <<"h","e","a","d","e","r">>)
            /\ ~Contains(Lower(srcs[i]), <<"b","a","n","n","e","r">>)
            /\ (Contains(srcs[i], <<"_","4","8","0","x","4","8","0">>) \/ Contains(srcs[i], <<"_","9","6","0","x","9","6","0">>))
    THEN <<"h","t","t","p","s",":","/","/","w","w","w",".","p","i","c","k","l","e","b","a","l","l","g","a","l","a","x","y",".","c","o","m","/","m","m","5","/">> \o srcs[i]
    ELSE GraphicsImage(srcs, i + 1)

\* image_url (lines 485-576)
GalaxyImageUrl(page) ==
    IF ImageCandidate(page.closeup_src) # None THEN ImageCandidate(page.closeup_src)
    ELSE IF ImageCandidate(page.main_src) # None THEN ImageCandidate(page.main_src)
    ELSE IF ImageCandidate(page.layout_src) # None THEN ImageCandidate(page.layout_src)
    ELSE GraphicsImage(page.graphics_srcs, 1)

\* a rejection that leaves out the check of the title
GalaxyRejectsUnfetchedOnly(page) == ~page.fetched

\* scrape_paddle returns None before it assembles a record (lines 79-81 and
\* 133-136)
GalaxyRejects(page) ==
    ~page.fetched \/ Lower(GalaxyTitleText(page)) \in NavigationTitles

\* specs_text (lines 284-291)
GalaxySpecsText(page) == IF page.description = None THEN <<>> ELSE page.description

\* a metadata that stores the whole product name as the model
GalaxyMetadataBrandedModel(brand, model) ==
    [brand |-> brand, model |-> brand \o <<" ">> \o model, source |-> <<"P","i","c","k","l","e","b","a","l","l"," ","G","a","l","a","x","y">>]

\* Metadata(brand=brand, model=model, source="Pickleball Galaxy") (line 482)
GalaxyMetadata(brand, model) ==
    [brand |-> brand, model |-> model, source |-> <<"P","i","c","k","l","e","b","a","l","l"," ","G","a","l","a","x","y">>]

\* scrape_paddle on the page of a url: NoPaddle when it returns None, else the
\* Paddle it returns
GalaxyRecord(page) ==
    IF GalaxyRejects(page) THEN NoPaddle
    ELSE LET title_text == GalaxyTitle(page)
             brand == GalaxyBrand(title_text, page.url)
             model == GalaxyModel(title_text, brand)
             specs_data == CollectSpecs(page.items, 1, EmptyDict)
             specs_text == GalaxySpecsText(page)
             length == GalaxyLength(specs_data)
         IN  [ id |-> generate_paddle_id(brand, model),
               metadata |-> GalaxyMetadata(brand, model),
               specs |-> [ shape |-> GalaxyShape(length),
                           surface |-> GalaxySurface(specs_data, specs_text),
                           average_weight |-> GalaxyWeight(specs_data),
                           core |-> GalaxyCore(specs_data, specs_text, title_text),
                           paddle_length |-> length,
                           paddle_width |-> GalaxyWidth(specs_data),
                           grip_length |-> GalaxyGripLength(specs_data),
                           grip_type |-> GalaxyGripType(specs_data),
                           grip_circumference |-> GalaxyGripCircumference(specs_data) ],
               performance |-> None ]

\* missing_fields when scrape_paddle returns its record: the names appended
\* along the way, in the order of the appends
GalaxyMissingFields(page) ==
    LET title_text == GalaxyTitle(page)
        brand == GalaxyBrand(title_text, page.url)
        specs_data == CollectSpecs(page.items, 1, EmptyDict)
        specs_text == GalaxySpecsText(page)
        when(missing, name) == IF missing THEN <<name>> ELSE <<>>
    IN  when(GalaxyTitleElem(page) = None /\ page.head_title = None, <<"t","i","t","l","e">>)
        \o when(BrandInTitle(title_text, 1) = None /\ BrandFromWords(title_text, page.url) = None,
                <<"b","r","a","n","d">>)
        \o when(ExtractedModel(title_text, brand) = <<>>, <<"m","o","d","e","l">>)
        \o when(page.description = None, <<"d","e","s","c","r","i","p","t","i","o","n">>)
        \o when(GalaxySurface(specs_data, specs_text) = None, <<"s","u","r","f","a","c","e">>)
        \o when(GalaxyCore(specs_data, specs_text, title_text) = None, <<"c","o","r","e">>)
        \o when(GalaxyGripLength(specs_data) = None, <<"g","r","i","p","_","l","e","n","g","t","h">>)
        \o when(GalaxyGripType(specs_data) = None, <<"g","r","i","p","_","t","y","p","e">>)
        \o when(GalaxyGripCircumference(specs_data) = None, <<"g","r","i","p","_","c","i","r","c","u","m","f","e","r","e","n","c","e">>)

---------------------------------------------------------------------------
(* central_scraper.scrape_central_paddles *)

\* re.search(r'(\d+\.?\d*)', specs['paddle_length']) and the shape from it
\* (lines 72-83); None when the specs hold no length or no number is found
CentralShapeFromLength(specs) ==
    IF ~HasKey(specs, <<"p","a","d","d","l","e","_","l","e","n","g","t","h">>) \/ specs[<<"p","a","d","d","l","e","_","l","e","n","g","t","h">>] = <<>> THEN None
    ELSE IF NumberSearch(specs[<<"p","a","d","d","l","e","_","l","e","n","g","t","h">>]) = None THEN None
    ELSE normalize_paddle_shape(
             determine_paddle_shape_from_length(PyFloat(NumberSearch(specs[<<"p","a","d","d","l","e","_","l","e","n","g","t","h">>]))))

\* the dict shape_keywords in its insertion order (lines 88-92)
shape_keywords ==
    << [shape_type |-> <<"E","l","o","n","g","a","t","e","d">>,
        keywords |-> << <<"e","l","o","n","g","a","t","e","d">>, <<"l","o","n","g">>, <<"1","6",".","5">>, <<"1","6",".","7","5">> >>],
       [shape_type |-> <<"H","y","b","r","i","d">>,
        keywords |-> << <<"h","y","b","r","i","d">>, <<"1","6",".","2","5">>, <<"1","6",".","3">> >>],
       [shape_type |-> <<"S","t","a","n","d","a","r","d">>,
        keywords |-> << <<"s","t","a","n","d","a","r","d">>, <<"t","r","a","d","i","t","i","o","n","a","l">>, <<"c","l","a","s","s","i","c">>, <<"1","6">>, <<"1","6",".","0">> >> ] >>

\* the two loops of lines 94-101 from category i on
RECURSIVE CentralShapeFromDescription(_, _)
CentralShapeFromDescription(description, i) ==
    IF i > Len(shape_keywords) THEN None
    ELSE IF \E k \in 1..Len(shape_keywords[i].keywords) :
                Contains(Lower(description), Lower(shape_keywords[i].keywords[k]))
    THEN shape_keywords[i].shape_type
    ELSE CentralShapeFromDescription(description, i + 1)

\* lines 68-106
CentralShape(specs, description) ==
    IF CentralShapeFromLength(specs) # None THEN CentralShapeFromLength(specs)
    ELSE IF CentralShapeFromDescription(description, 1) # None
    THEN CentralShapeFromDescription(description, 1)
    ELSE <<"S","t","a","n","d","a","r","d">>

\* float(price_text.replace('$', '').replace(',', ''))
CentralPrice(price_text) == PyFloat(Replace(Replace(price_text, <<"$">>, <<>>), <<",">>, <<>>))

\* the card is left by a continue (lines 33-42)
CentralSkips(card) ==
    \/ card.brand = None \/ card.name = None \/ card.price_text = None
    \/ /\ Strip(card.brand) = <<>> \/ Lower(Strip(card.brand)) = <<"u","n","k","n","o","w","n">>
       /\ Strip(card.name) = <<>> \/ Lower(Strip(card.name)) = <<"u","n","k","n","o","w","n"," ","p","r","o","d","u","c","t">>

\* the body of the loop over the product cards (lines 26-173): NoPaddle when the
\* card is skipped or an exception ends its processing, else the record with
\* the performance numbers drawn around their baselines by jitter
CentralRecord(card, jitter) ==
    IF CentralSkips(card) THEN NoPaddle
    ELSE IF CentralPrice(Strip(card.price_text)) \in Exceptions THEN NoPaddle
    ELSE LET brand == Strip(card.brand)
             name == Strip(card.name)
             description == IF card.description = None THEN <<>> ELSE Strip(card.description)
             specs == IF card.product_url THEN card.page_specs ELSE EmptyDict
         IN  [ id |-> generate_paddle_id(brand, name),
               metadata |-> [brand |-> brand, model |-> name, source |-> <<"P","i","c","k","l","e","b","a","l","l"," ","C","e","n","t","r","a","l">>],
               specs |-> [ shape |-> CentralShape(specs, description),
                           surface |-> <<"C","a","r","b","o","n"," ","F","i","b","e","r">>,
                           average_weight |-> Rat(215, 1),
                           core |-> Rat(29, 2),
                           paddle_length |-> Rat(16, 1),
                           paddle_width |-> Rat(15, 2),
                           grip_length |-> Rat(5, 1),
                           grip_type |-> <<"S","t","a","n","d","a","r","d">>,
                           grip_circumference |-> Rat(17, 4) ],
               performance |-> [ power |-> Rat(80 + 5 * jitter[1], 1),
                                 pop |-> Rat(75 + 5 * jitter[2], 1),
                                 spin |-> Rat(3000 + 400 * jitter[3], 1),
                                 twist_weight |-> Rat(200 + 15 * jitter[4], 1),
                                 swing_weight |-> Rat(215 + 15 * jitter[5], 1),
                                 balance_point |-> Rat(29 + 2 * jitter[6], 1) ] ]
---------------------------------------------------------------------------
(* image_downloader.py: the image store *)

\* what fs_files holds for a directory
Directory == <<"directory">>
\* requests.get raised a RequestException, or raise_for_status did
RequestFailed == <<"RequestException">>

\* os.path.exists(path)
PathExists(files, path) == \E f \in files : f[1] = path

\* os.path.join(a, b) for a b that does not start with a slash
PathJoin(a, b) ==
    IF a = <<>> \/ a[Len(a)] = "/" THEN a \o b ELSE a \o <<"/">> \o b

\* os.makedirs(path, exist_ok=True) for a path of one or two components
\* below the working directory
MakeDirs(files, path) ==
    LET slash == Find(path, <<"/">>)
        parent == IF slash > 1 /\ ~PathExists(files, Slice(path, 1, slash - 1))
                  THEN {<<Slice(path, 1, slash - 1), Directory>>} ELSE {}
        leaf == IF path[Len(path)] = "/" THEN Slice(path, 1, Len(path) - 1) ELSE path
    IN  files \cup parent \cup (IF PathExists(files, leaf) THEN {} ELSE {<<leaf, Directory>>})

invalid_chars == {"<", ">", ":", "\"", "/", "\\", "|", "?", "*"}

\* re.sub(r'\s+', '_', s): every run of whitespace becomes one underscore
RECURSIVE SpaceRunsToUnderscore(_)
SpaceRunsToUnderscore(s) ==
    IF s = <<>> THEN <<>>
    ELSE IF IsSpace(s[1])
         THEN <<"_">> \o SpaceRunsToUnderscore(From(s, Span(s, {" ", "\t", "\n"}) + 1))
         ELSE <<s[1]>> \o SpaceRunsToUnderscore(Tail(s))

\* s.strip(' .')
RECURSIVE StripSpacesAndDots(_)
StripSpacesAndDots(s) ==
    IF s = <<>> THEN s
    ELSE IF s[1] \in {" ", "."} THEN StripSpacesAndDots(Tail(s))
    ELSE IF s[Len(s)] \in {" ", "."} THEN StripSpacesAndDots(Slice(s, 1, Len(s) - 1))
    ELSE s

sanitize_filename(filename) ==
    StripSpacesAndDots(SpaceRunsToUnderscore(
        [i \in 1..Len(filename) |->
            IF filename[i] \in invalid_chars THEN "_" ELSE filename[i]]))

\* the index of the first character of s, from index i on, that is in cls;
\* Len(s) + 1 when there is none
RECURSIVE FirstOf(_, _, _)
FirstOf(s, i, cls) ==
    IF i > Len(s) THEN Len(s) + 1
    ELSE IF s[i] \in cls THEN i
    ELSE FirstOf(s, i + 1, cls)

\* the index of the last occurrence of c in s, 0 when there is none
RECURSIVE RFind(_, _)
RFind(s, c) ==
    IF s = <<>> THEN 0
    ELSE IF s[Len(s)] = c THEN Len(s)
    ELSE RFind(Slice(s, 1, Len(s) - 1), c)

\* urlparse(url): the url without its scheme
UrlAfterScheme(url) ==
    LET colon == Find(url, <<":">>)
    IN  IF /\ colon > 1
           /\ url[1] \in UpperChars \cup LowerChars
           /\ \A k \in 1..(colon - 1) :
                 url[k] \in UpperChars \cup LowerChars \cup DigitChars \cup {"+", "-", "."}
        THEN From(url, colon + 1) ELSE url

\* urlparse(url): what follows the host
UrlAfterHost(rest) ==
    IF StartsWith(rest, <<"/", "/">>)
    THEN From(rest, FirstOf(rest, 3, {"/", "?", "#"}))
    ELSE rest

\* urlparse(url): the text up to the query and the fragment
UrlBeforeQuery(rest) == Slice(rest, 1, FirstOf(rest, 1, {"?", "#"}) - 1)

\* urlparse(url): the path without the parameters of its last segment
UrlBeforeParams(path) == Slice(path, 1, FirstOf(path, RFind(path, "/") + 1, {";"}) - 1)

\* urlparse(url).path: what follows the scheme and the host, up to the
\* parameters, the query and the fragment
UrlPath(url) == UrlBeforeParams(UrlBeforeQuery(UrlAfterHost(UrlAfterScheme(url))))

image_extensions == { <<"j","p","g">>, <<"j","p","e","g">>, <<"p","n","g">>, <<"g","i","f">>, <<"w","e","b","p">> }

\* the extension download_image gives the file
ImageExtension(image_url) ==
    LET path == UrlPath(image_url)
        pieces == SplitOn(path, ".")
        extension == Lower(pieces[Len(pieces)])
    IN  IF Contains(path, <<".">>) /\ extension \in image_extensions
        THEN extension ELSE <<"j","p","g">>

\* filepath of download_image
ImagePath(image_url, brand, model, base_folder) ==
    PathJoin(PathJoin(base_folder, sanitize_filename(brand)),
             sanitize_filename(brand) \o <<"_">> \o sanitize_filename(model)
                 \o <<".">> \o ImageExtension(image_url))

\* a download_image that fetches the image whether or not the file is there
DownloadImageAlways(image_url, brand, model, base_folder, files, response) ==
    IF image_url = None \/ image_url = <<>>
    THEN [ret |-> None, files |-> files, requests |-> <<>>]
    ELSE
        LET dirs == MakeDirs(MakeDirs(files, base_folder),
                             PathJoin(base_folder, sanitize_filename(brand)))
            filepath == ImagePath(image_url, brand, model, base_folder)
        IN  IF response = RequestFailed
            THEN [ret |-> None, files |-> dirs, requests |-> <<"get image">>]
            ELSE [ret |-> filepath,
                  files |-> {f \in dirs : f[1] # filepath} \cup {<<filepath, response>>},
                  requests |-> <<"get image">>]

\* download_image(image_url, brand, model, base_folder) on a disk that holds
\* files, when the server answers a request with response: what it returns,
\* the disk afterwards and the requests it made
download_image(image_url, brand, model, base_folder, files, response) ==
    IF image_url = None \/ image_url = <<>>
    THEN [ret |-> None, files |-> files, requests |-> <<>>]
    ELSE
        LET dirs == MakeDirs(MakeDirs(files, base_folder),
                             PathJoin(base_folder, sanitize_filename(brand)))
            filepath == ImagePath(image_url, brand, model, base_folder)
        IN  IF PathExists(dirs, filepath)
            THEN [ret |-> filepath, files |-> dirs, requests |-> <<>>]
            ELSE IF response = RequestFailed
            THEN [ret |-> None, files |-> dirs, requests |-> <<"get image">>]
            ELSE [ret |-> filepath, files |-> dirs \cup {<<filepath, response>>},
                  requests |-> <<"get image">>]

---------------------------------------------------------------------------
(* galaxy_scraper.py: get_paddle_urls *)

galaxy_base_url == <<"h","t","t","p","s",":","/","/","w","w","w",".","p","i","c","k","l","e","b","a","l","l","g","a","l","a","x","y",".","c","o","m">>
\* the safety limit of get_paddle_urls
max_pages == 10

\* the full url of a link (galaxy_scraper.py lines 55-59)
AbsoluteUrl(href) ==
    IF StartsWith(href, <<"h","t","t","p">>) THEN href
    ELSE IF StartsWith(href, <<"/">>) THEN galaxy_base_url \o href
    ELSE galaxy_base_url \o <<"/">> \o href

\* the urls the loop over paddle_links appends: a product page stands for its
\* url, and a link without href adds nothing
RECURSIVE LinkUrls(_, _)
LinkUrls(links, k) ==
    IF k > Len(links) THEN <<>>
    ELSE IF links[k].href = None \/ links[k].href = <<>> THEN LinkUrls(links, k + 1)
    ELSE <<[links[k].page EXCEPT !.url = AbsoluteUrl(links[k].href)]>> \o LinkUrls(links, k + 1)

\* what get_page gives for a listing page the site does not have
NoListingPage == [fetched |-> FALSE, links |-> <<>>, has_next |-> FALSE]

\* a get_paddle_urls whose loop has no limit
RECURSIVE GetPaddleUrlsUnlimited(_, _, _, _)
GetPaddleUrlsUnlimited(listing, page, paddle_urls, requests) ==
    LET soup == IF page <= Len(listing) THEN listing[page] ELSE NoListingPage
        fetched == Append(requests, "get listing")
    IN  IF ~soup.fetched THEN [paddle_urls |-> paddle_urls, requests |-> fetched]
        ELSE IF soup.links = <<>> THEN [paddle_urls |-> paddle_urls, requests |-> fetched]
        ELSE IF page > 1 /\ ~soup.has_next
        THEN [paddle_urls |-> paddle_urls \o LinkUrls(soup.links, 1), requests |-> fetched]
        ELSE GetPaddleUrlsUnlimited(listing, page + 1, paddle_urls \o LinkUrls(soup.links, 1),
                                    Append(fetched, "sleep"))

\* the loop of get_paddle_urls from listing page number page on (lines 21-73):
\* the urls it returns and the requests and sleeps it makes
RECURSIVE get_paddle_urls(_, _, _, _)
get_paddle_urls(listing, page, paddle_urls, requests) ==
    IF page > max_pages THEN [paddle_urls |-> paddle_urls, requests |-> requests]
    ELSE
        LET soup == IF page <= Len(listing) THEN listing[page] ELSE NoListingPage
            fetched == Append(requests, "get listing")
        IN  IF ~soup.fetched THEN [paddle_urls |-> paddle_urls, requests |-> fetched]
            ELSE IF soup.links = <<>> THEN [paddle_urls |-> paddle_urls, requests |-> fetched]
            ELSE IF page > 1 /\ ~soup.has_next
            THEN [paddle_urls |-> paddle_urls \o LinkUrls(soup.links, 1), requests |-> fetched]
            ELSE get_paddle_urls(listing, page + 1, paddle_urls \o LinkUrls(soup.links, 1),
                                 Append(fetched, "sleep"))


---------------------------------------------------------------------------
(* The two site adapters applied to bounded pages and product cards *)

\* the number of '.o-layout__item' entries of a product page
MaxItems == 2
\* the number of product cards of the listing
MaxCards == 2
\* the number of urls of a crawl of several pages
MaxUrls == 2
\* the number of listing pages the site serves before the last ones
MaxListingPages == 11

GalaxyItems ==
    { <<"P","a","d","d","l","e"," ","L","e","n","g","t","h",":","1","6",".","5"," ","i","n">>, <<"P","a","d","d","l","e"," ","L","e","n","g","t","h",":","1","6",".","2","5"," ","i","n">>, <<"P","a","d","d","l","e"," ","L","e","n","g","t","h",":","1","6"," ","i","n">>,
      <<"P","a","d","d","l","e"," ","L","e","n","g","t","h",":","T","B","D">>, <<"W","e","i","g","h","t",":","7",".","5","-","8",".","5"," ","o","u","n","c","e","s">>, <<"W","e","i","g","h","t",":","7",".","5","-","8",".","5"," ","o","z">>,
      <<"W","e","i","g","h","t",":","8"," ","o","z">>, <<"P","a","d","d","l","e"," ","W","i","d","t","h",":","7",".","5"," ","i","n">>, <<"M","a","d","e"," ","i","n"," ","U","S","A">> }

\* entries of the fields that have no size: surface, core and grip
FieldItems ==
    { <<"C","o","r","e"," ","T","h","i","c","k","n","e","s","s",":","1","6","m","m">>, <<"C","o","r","e"," ","T","h","i","c","k","n","e","s","s",":","0","m","m">>,
      <<"S","u","r","f","a","c","e"," ","M","a","t","e","r","i","a","l",":","R","a","w"," ","C","a","r","b","o","n"," ","F","i","b","e","r">>, <<"S","u","r","f","a","c","e"," ","M","a","t","e","r","i","a","l",":","K","e","v","l","a","r">>,
      <<"S","u","r","f","a","c","e"," ","M","a","t","e","r","i","a","l",":">>, <<"H","a","n","d","l","e"," ","L","e","n","g","t","h",":","5",".","5"," ","i","n">>, <<"F","a","c","t","o","r","y"," ","G","r","i","p",":","C","o","m","f","o","r","t">>,
      <<"G","r","i","p"," ","S","i","z","e",":","4"," ","1","/","8"," ","i","n"," ","*","m","a","y"," ","v","a","r","y"," ","u","p"," ","t","o"," ","1","/","8">> }

Descriptions ==
    { <<>>, <<"t","h","i","s"," ","i","s"," ","a"," ","h","y","b","r","i","d"," ","p","a","d","d","l","e">>, <<"A","n"," ","E","l","o","n","g","a","t","e","d"," ","s","h","a","p","e">>, <<"a"," ","c","l","a","s","s","i","c"," ","f","e","e","l">> }

FieldDescriptions ==
    { <<"a"," ","c","l","a","s","s","i","c"," ","f","e","e","l">>, <<"1","4","m","m"," ","c","o","r","e",","," ","g","r","a","p","h","i","t","e"," ","f","a","c","e">>, <<"C","o","r","e",":"," ","1","3"," ","m","m","."," ","F","i","b","e","r","g","l","a","s","s",".">>,
      <<"c","o","r","e"," ","1","3"," ","o","r"," ","1","4","m","m"," ","c","o","r","e">> }

\* a fetched page with a title element and nothing else
PlainPage ==
    [ fetched |-> TRUE, url |-> <<"h","t","t","p","s",":","/","/","w","w","w",".","p","i","c","k","l","e","b","a","l","l","g","a","l","a","x","y",".","c","o","m","/","x">>,
      title_elem |-> <<"S","e","l","k","i","r","k"," ","V","a","n","g","u","a","r","d"," ","P","a","d","d","l","e">>, head_title |-> None,
      items |-> <<>>, description |-> None,
      closeup_src |-> None, main_src |-> None, layout_src |-> None, graphics_srcs |-> <<>> ]

\* pages that differ in their length, weight and width entries
SpecPages ==
    { [PlainPage EXCEPT !.items = items, !.description = description] :
         items \in UNION {[1..n -> GalaxyItems] : n \in 0..MaxItems},
         description \in Descriptions \cup {None} }

\* pages that differ in their surface, core and grip entries, their
\* description and the thickness their title names
FieldPages ==
    { [PlainPage EXCEPT !.items = items, !.description = description, !.title_elem = title_elem] :
         items \in UNION {[1..n -> FieldItems] : n \in 0..MaxItems},
         description \in FieldDescriptions \cup {None},
         title_elem \in {<<"S","e","l","k","i","r","k"," ","V","a","n","g","u","a","r","d"," ","P","a","d","d","l","e">>, <<"S","e","l","k","i","r","k"," ","V","a","n","g","u","a","r","d"," ","1","9","m","m"," ","P","a","d","d","l","e">>} }

\* pages that differ in their title element, <title> and url
TitlePages ==
    { [PlainPage EXCEPT !.title_elem = title_elem, !.head_title = head_title, !.url = url] :
         title_elem \in {None, <<"S","e","l","k","i","r","k"," ","V","a","n","g","u","a","r","d"," ","P","a","d","d","l","e">>, <<"C","a","t","e","g","o","r","i","e","s">>, <<"H","o","m","e">>,
                         <<"P","i","c","k","l","e","b","a","l","l"," ","P","a","d","d","l","e">>, <<"V","a","t","i","c"," ","P","r","o"," ","F","l","a","s","h"," ","1","6","m","m"," ","(","E","l","o","n","g","a","t","e","d",")">>, <<"E","r","a">>},
         head_title \in {None, <<>>, <<"S","e","l","k","i","r","k"," ","V","a","n","g","u","a","r","d"," ","P","a","d","d","l","e"," ","-"," ","P","i","c","k","l","e","b","a","l","l"," ","G","a","l","a","x","y">>,
                         <<"H","o","m","e"," ","-"," ","P","i","c","k","l","e","b","a","l","l"," ","G","a","l","a","x","y">>, <<"P","a","d","d","l","e","s">>},
         url \in {<<"h","t","t","p","s",":","/","/","w","w","w",".","p","i","c","k","l","e","b","a","l","l","g","a","l","a","x","y",".","c","o","m","/","x">>,
                  <<"h","t","t","p","s",":","/","/","w","w","w",".","p","i","c","k","l","e","b","a","l","l","g","a","l","a","x","y",".","c","o","m","/","s","e","l","k","i","r","k","-","s","l","k","-","e","r","a",".","h","t","m","l">>,
                  <<"h","t","t","p","s",":","/","/","w","w","w",".","p","i","c","k","l","e","b","a","l","l","g","a","l","a","x","y",".","c","o","m","/","p","i","c","k","l","e","b","a","l","l","-","p","a","d","d","l","e",".","h","t","m","l">>} }

\* pages that differ in their images
ImagePages ==
    { [PlainPage EXCEPT !.closeup_src = closeup_src, !.main_src = main_src,
                        !.layout_src = layout_src, !.graphics_srcs = graphics_srcs] :
         closeup_src \in {None, <<"g","r","a","p","h","i","c","s","/","0","0","0","0","0","0","0","1","/","c","l","o","s","e","u","p","_","9","6","0","x","9","6","0",".","j","p","g">>,
                          <<"g","r","a","p","h","i","c","s","/","e","n","-","U","S","/","c","s","s","u","i","/","b","l","a","n","k",".","g","i","f">>, <<"g","r","a","p","h","i","c","s","/","0","0","0","0","0","0","0","1","/","l","o","g","o",".","p","n","g">>},
         main_src \in {None, <<"g","r","a","p","h","i","c","s","/","0","0","0","0","0","0","0","1","/","m","a","i","n","_","4","8","0","x","4","8","0",".","j","p","g">>},
         layout_src \in {None, <<"/","i","m","a","g","e","s","/","l","a","y","o","u","t",".","j","p","g">>},
         graphics_srcs \in {<<>>, << <<"g","r","a","p","h","i","c","s","/","0","0","0","0","0","0","0","1","/","t","h","u","m","b","_","8","0","x","8","0",".","j","p","g">>,
                                    <<"g","r","a","p","h","i","c","s","/","0","0","0","0","0","0","0","1","/","s","i","d","e","_","4","8","0","x","4","8","0",".","j","p","g">> >>} }

\* a url that cannot be fetched
UnfetchedPage == [PlainPage EXCEPT !.fetched = FALSE, !.title_elem = None]

GalaxyPages == SpecPages \cup FieldPages \cup TitlePages \cup ImagePages \cup {UnfetchedPage}

\* the pages a crawl of several urls is made of
BatchPages ==
    { PlainPage, UnfetchedPage,
      [PlainPage EXCEPT !.title_elem = <<"C","a","t","e","g","o","r","i","e","s">>,
                        !.closeup_src = <<"g","r","a","p","h","i","c","s","/","0","0","0","0","0","0","0","1","/","c","l","o","s","e","u","p","_","9","6","0","x","9","6","0",".","j","p","g">>],
      [PlainPage EXCEPT !.items = << <<"P","a","d","d","l","e"," ","L","e","n","g","t","h",":","1","6",".","5"," ","i","n">> >>,
                        !.closeup_src = <<"g","r","a","p","h","i","c","s","/","0","0","0","0","0","0","0","1","/","c","l","o","s","e","u","p","_","9","6","0","x","9","6","0",".","j","p","g">>] }

GalaxyCrawls ==
    { <<page>> : page \in GalaxyPages }
    \cup UNION {[1..n -> BatchPages] : n \in 0..MaxUrls}

\* what the server sends for an image: nothing, or one of two contents
ImageResponses == { RequestFailed, <<"bytes", 1>>, <<"bytes", 2>> }

\* an <a> element of a listing page and the product page its url leads to
LinkTo(href, page) == [href |-> href, page |-> page]

\* a listing page with one product link and a next-page link
FullListingPage ==
    [ fetched |-> TRUE, links |-> << LinkTo(<<"/","x">>, PlainPage) >>, has_next |-> TRUE ]

\* listing pages that end the crawl or add nothing to it: one that cannot be
\* fetched, one without product links, one without a next-page link, one
\* whose first link has no href
LastListingPages ==
    { [FullListingPage EXCEPT !.fetched = FALSE, !.links = <<>>],
      [FullListingPage EXCEPT !.links = <<>>],
      [FullListingPage EXCEPT !.links = << LinkTo(<<"x">>, PlainPage) >>, !.has_next = FALSE],
      [FullListingPage EXCEPT !.links = << LinkTo(None, PlainPage),
                                          LinkTo(<<"h","t","t","p","s",":","/","/","w","w","w",".","p","i","c","k","l","e","b","a","l","l","g","a","l","a","x","y",".","c","o","m","/","x">>, PlainPage) >>] }

\* the listing of a site: one page that links to the pages of a crawl, some
\* full pages followed by at most one of the others, or two of the others
GalaxyListings ==
    { << [ fetched |-> TRUE,
           links |-> [i \in 1..Len(crawl) |-> LinkTo(crawl[i].url, crawl[i])],
           has_next |-> FALSE ] >> : crawl \in GalaxyCrawls }
    \cup { [i \in 1..n |-> FullListingPage] \o last :
             n \in 0..MaxListingPages,
             last \in UNION {[1..k -> LastListingPages] : k \in 0..1} }
    \cup [1..2 -> LastListingPages]

InitGalaxy ==
    /\ fs_files = {}
    /\ net_log = <<>>
    /\ gx_listing \in GalaxyListings
    /\ gx_urls = <<>>
    /\ gx_i = 1
    /\ gx_page = NoPaddle
    /\ gx_result = NoPaddle
    /\ gx_missing = <<>>
    /\ gx_image = None
    /\ gx_paddles = <<>>
    /\ gx_pc = "urls"

IdleGalaxy ==
    /\ gx_listing = <<>>
    /\ gx_urls = <<>>
    /\ gx_i = 0
    /\ gx_page = NoPaddle
    /\ gx_result = NoPaddle
    /\ gx_missing = <<>>
    /\ gx_image = None
    /\ gx_paddles = <<>>
    /\ gx_pc = "idle"

\* scrape_all calls get_paddle_urls() (base_scraper.py line 48)
ScrapeAllGetUrls ==
    /\ gx_pc = "urls"
    /\ gx_urls' = get_paddle_urls(gx_listing, 1, <<>>, <<>>).paddle_urls
    /\ net_log' = net_log \o get_paddle_urls(gx_listing, 1, <<>>, <<>>).requests
    /\ gx_pc' = "loop"
    /\ UNCHANGED <<fs_files, gx_listing, gx_i, gx_page, gx_result, gx_missing, gx_image, gx_paddles>>
    /\ UNCHANGED notGalaxyVars

\* scrape_all calls scrape_paddle(url) for the next url (base_scraper.py
\* line 52): the page is requested and, when the page has a product image,
\* download_image is called with it (galaxy_scraper.py lines 578-581)
GalaxyScrapePaddle ==
    /\ gx_pc = "loop"
    /\ gx_i <= Len(gx_urls)
    /\ gx_page' = gx_urls[gx_i]
    /\ gx_result' = GalaxyRecord(gx_urls[gx_i])
    /\ gx_missing' = IF GalaxyRejects(gx_urls[gx_i]) THEN <<>>
                     ELSE GalaxyMissingFields(gx_urls[gx_i])
    /\ gx_image' = IF GalaxyRejects(gx_urls[gx_i]) THEN None
                   ELSE GalaxyImageUrl(gx_urls[gx_i])
    /\ gx_pc' = "scraped"
    /\ UNCHANGED <<gx_listing, gx_urls, gx_i, gx_paddles>>
    /\ UNCHANGED notGalaxyVars
    /\ \E response \in ImageResponses :
          LET saved == IF gx_image' = None
                       THEN [ret |-> None, files |-> fs_files, requests |-> <<>>]
                       ELSE download_image(gx_image', gx_result'.metadata.brand,
                                           gx_result'.metadata.model,
                                           <<"i","m","a","g","e","s">>, fs_files, response)
          IN  /\ fs_files' = saved.files
              /\ net_log' = net_log \o <<"get product">> \o saved.requests

\* a scrape_all that gives up the remaining urls when one of them fails
ScrapeAllCollectStoppingAtFailure ==
    /\ gx_pc = "scraped"
    /\ gx_paddles' = IF gx_result # NoPaddle THEN Append(gx_paddles, gx_result) ELSE gx_paddles
    /\ gx_i' = IF gx_result # NoPaddle THEN gx_i + 1 ELSE Len(gx_urls) + 1
    /\ gx_pc' = "loop"
    /\ net_log' = Append(net_log, "sleep")
    /\ UNCHANGED <<fs_files, gx_listing, gx_urls, gx_page, gx_result, gx_missing, gx_image>>
    /\ UNCHANGED notGalaxyVars

\* scrape_all keeps the record, if there is one, waits in rate_limit() and
\* goes on to the next url (base_scraper.py lines 53-55)
ScrapeAllCollect ==
    /\ gx_pc = "scraped"
    /\ gx_paddles' = IF gx_result # NoPaddle THEN Append(gx_paddles, gx_result) ELSE gx_paddles
    /\ gx_i' = gx_i + 1
    /\ gx_pc' = "loop"
    /\ net_log' = Append(net_log, "sleep")
    /\ UNCHANGED <<fs_files, gx_listing, gx_urls, gx_page, gx_result, gx_missing, gx_image>>
    /\ UNCHANGED notGalaxyVars

\* the loop of scrape_all is over: return paddles
ScrapeAllReturn ==
    /\ gx_pc = "loop"
    /\ gx_i > Len(gx_urls)
    /\ gx_pc' = "done"
    /\ UNCHANGED <<fs_files, net_log, gx_listing, gx_urls, gx_i, gx_page, gx_result,
                   gx_missing, gx_image, gx_paddles>>
    /\ UNCHANGED notGalaxyVars

\* what scrape_product_specs found on the product page of a card
PageSpecs ==
    { EmptyDict } \cup
    { DictSet(EmptyDict, <<"p","a","d","d","l","e","_","l","e","n","g","t","h">>, v) : v \in {<<"1","6",".","5"," ","i","n">>, <<"1","6",".","2","5"," ","i","n">>, <<"1","6"," ","i","n">>, <<"T","B","D">>} }

\* a specifications tab that names a length, a width and a weight
FullPageSpecs ==
    DictSet(DictSet(DictSet(EmptyDict, <<"p","a","d","d","l","e","_","l","e","n","g","t","h">>, <<"1","6",".","5"," ","i","n">>),
                    <<"p","a","d","d","l","e","_","w","i","d","t","h">>, <<"8"," ","i","n">>),
            <<"a","v","e","r","a","g","e","_","w","e","i","g","h","t">>, <<"7",".","8"," ","o","u","n","c","e","s">>)

CentralCards ==
    [ brand : {<<"S","e","l","k","i","r","k">>}, name : {<<"V","a","n","g","u","a","r","d">>}, price_text : {<<"$","1",",","1","9","9",".","9","9">>},
      description : {<<>>, <<"t","h","i","s"," ","i","s"," ","a"," ","h","y","b","r","i","d"," ","p","a","d","d","l","e">>},
      product_url : {TRUE}, page_specs : PageSpecs, image_src : {None} ]
    \cup
    [ brand : {<<"S","e","l","k","i","r","k">>}, name : {<<"V","a","n","g","u","a","r","d">>}, price_text : {<<"$","1",",","1","9","9",".","9","9">>},
      description : {<<>>}, product_url : {TRUE}, page_specs : {FullPageSpecs},
      image_src : {<<"/","i","m","a","g","e","s","/","s","t","e","n","c","i","l","/","v","a","n","g","u","a","r","d",".","p","n","g">>} ]
    \cup
    [ brand : {<<"S","e","l","k","i","r","k">>}, name : {<<"V","a","n","g","u","a","r","d">>}, price_text : {<<"$","1",",","1","9","9",".","9","9">>},
      description : {None, <<>>, <<"t","h","i","s"," ","i","s"," ","a"," ","h","y","b","r","i","d"," ","p","a","d","d","l","e">>, <<"a"," ","l","o","n","g"," ","c","l","a","s","s","i","c">>},
      product_url : {FALSE}, page_specs : {EmptyDict}, image_src : {None} ]
    \cup
    [ brand : {None, <<"U","n","k","n","o","w","n">>}, name : {<<"U","n","k","n","o","w","n"," ","P","r","o","d","u","c","t">>}, price_text : {<<"$","9","9",".","0","0">>},
      description : {None}, product_url : {FALSE}, page_specs : {EmptyDict}, image_src : {None} ]
    \cup
    [ brand : {<<"J","o","o","l","a">>}, name : {<<"P","e","r","s","e","u","s">>}, price_text : {<<"C","a","l","l">>},
      description : {None}, product_url : {FALSE}, page_specs : {EmptyDict}, image_src : {None} ]

\* the six draws of random.uniform for one card, each as a fraction of its range
Jitters == { <<0 - 1, 0 - 1, 0 - 1, 0 - 1, 0 - 1, 0 - 1>>, <<1, 0 - 1, 0, 1, 0 - 1, 0>> }

\* the cards a listing of several cards is made of: two that give a record,
\* one without its brand element, one of unknown brand and name, one whose
\* price is no number
BatchCards ==
    { [ brand |-> <<"S","e","l","k","i","r","k">>, name |-> <<"V","a","n","g","u","a","r","d">>, price_text |-> <<"$","1",",","1","9","9",".","9","9">>,
        description |-> <<>>, product_url |-> FALSE, page_specs |-> EmptyDict,
        image_src |-> <<"i","m","a","g","e","s","/","v","a","n","g","u","a","r","d",".","j","p","g">> ],
      [ brand |-> <<"S","e","l","k","i","r","k">>, name |-> <<"V","a","n","g","u","a","r","d">>, price_text |-> <<"$","1",",","1","9","9",".","9","9">>,
        description |-> <<"t","h","i","s"," ","i","s"," ","a"," ","h","y","b","r","i","d"," ","p","a","d","d","l","e">>, product_url |-> TRUE,
        page_specs |-> DictSet(EmptyDict, <<"p","a","d","d","l","e","_","l","e","n","g","t","h">>, <<"1","6",".","2","5"," ","i","n">>),
        image_src |-> <<"h","t","t","p","s",":","/","/","c","d","n",".","e","x","a","m","p","l","e",".","c","o","m","/","v","a","n","g","u","a","r","d",".","j","p","g","?","c","=","2">> ],
      [ brand |-> None, name |-> <<"U","n","k","n","o","w","n"," ","P","r","o","d","u","c","t">>, price_text |-> <<"$","9","9",".","0","0">>,
        description |-> None, product_url |-> FALSE, page_specs |-> EmptyDict,
        image_src |-> None ],
      [ brand |-> <<"U","n","k","n","o","w","n">>, name |-> <<"U","n","k","n","o","w","n"," ","P","r","o","d","u","c","t">>, price_text |-> <<"$","9","9",".","0","0">>,
        description |-> None, product_url |-> FALSE, page_specs |-> EmptyDict,
        image_src |-> None ],
      [ brand |-> <<"J","o","o","l","a">>, name |-> <<"P","e","r","s","e","u","s">>, price_text |-> <<"C","a","l","l">>,
        description |-> None, product_url |-> FALSE, page_specs |-> EmptyDict,
        image_src |-> None ] }

CentralListings ==
    { <<card>> : card \in CentralCards }
    \cup UNION {[1..n -> BatchCards] : n \in 1..MaxCards}

InitCentral ==
    /\ fs_files = {}
    /\ net_log = <<>>
    /\ ct_cards \in CentralListings
    /\ ct_i = 1
    /\ ct_last = NoPaddle
    /\ ct_paddles = <<>>
    /\ ct_pc = "fetch"

IdleCentral ==
    /\ ct_cards = <<>>
    /\ ct_i = 0
    /\ ct_last = NoPaddle
    /\ ct_paddles = <<>>
    /\ ct_pc = "idle"

\* scrape_central_paddles requests the listing and selects its product cards
\* (central_scraper.py lines 16-22)
CentralFetchListing ==
    /\ ct_pc = "fetch"
    /\ net_log' = Append(net_log, "get listing")
    /\ ct_pc' = "loop"
    /\ UNCHANGED <<fs_files, ct_cards, ct_i, ct_last, ct_paddles>>
    /\ UNCHANGED notCentralVars

\* the full url of the image of a card (central_scraper.py lines 115-120)
CentralImageUrl(src) ==
    IF src = None \/ src = <<>> THEN None
    ELSE IF StartsWith(src, <<"/">>) THEN <<"h","t","t","p","s",":","/","/","p","i","c","k","l","e","b","a","l","l","c","e","n","t","r","a","l",".","c","o","m">> \o src
    ELSE IF ~StartsWith(src, <<"h","t","t","p">>) THEN <<"h","t","t","p","s",":","/","/","p","i","c","k","l","e","b","a","l","l","c","e","n","t","r","a","l",".","c","o","m","/">> \o src
    ELSE src

\* the card is neither skipped nor ended by the exception of its price
CentralReaches(card) ==
    ~CentralSkips(card) /\ CentralPrice(Strip(card.price_text)) \notin Exceptions

\* one iteration of the loop over the product cards: a card that is neither
\* skipped nor ended by an exception has its product page requested, followed
\* by a sleep (lines 62-66), and its image downloaded (lines 112-126)
CentralProcessCard ==
    /\ ct_pc = "loop"
    /\ ct_i <= Len(ct_cards)
    /\ \E jitter \in Jitters, response \in ImageResponses :
         LET card == ct_cards[ct_i]
             saved == IF CentralReaches(card)
                      THEN download_image(CentralImageUrl(card.image_src), Strip(card.brand),
                                          Strip(card.name), <<"i","m","a","g","e","s">>, fs_files, response)
                      ELSE [ret |-> None, files |-> fs_files, requests |-> <<>>]
         IN  /\ ct_last' = CentralRecord(card, jitter)
             /\ ct_paddles' = IF CentralRecord(card, jitter) = NoPaddle
                              THEN ct_paddles
                              ELSE Append(ct_paddles, CentralRecord(card, jitter))
             /\ fs_files' = saved.files
             /\ net_log' = net_log
                    \o (IF CentralReaches(card) /\ card.product_url
                        THEN <<"get product", "sleep">> ELSE <<>>)
                    \o saved.requests
    /\ ct_i' = ct_i + 1
    /\ UNCHANGED <<ct_cards, ct_pc>>
    /\ UNCHANGED notCentralVars

\* the loop is over: return paddles
CentralReturn ==
    /\ ct_pc = "loop"
    /\ ct_i > Len(ct_cards)
    /\ ct_pc' = "done"
    /\ UNCHANGED <<fs_files, net_log, ct_cards, ct_i, ct_last, ct_paddles>>
    /\ UNCHANGED notCentralVars

NextAdapters ==
    \/ ScrapeAllGetUrls \/ GalaxyScrapePaddle \/ ScrapeAllCollect \/ ScrapeAllReturn
    \/ CentralFetchListing \/ CentralProcessCard \/ CentralReturn

---------------------------------------------------------------------------
(* Claims about the records the adapters emit (checked under SpecAdapters) *)

\* scrape_paddle has just returned a record
GalaxyEmitted == gx_pc = "scraped" /\ gx_result # NoPaddle

\* C1: in every record emitted by either adapter, specs.shape is one of
\* Elongated, Hybrid and Wide-body
C1_ShapeIsCanonical ==
    /\ GalaxyEmitted => gx_result.specs.shape \in {<<"E","l","o","n","g","a","t","e","d">>, <<"H","y","b","r","i","d">>, <<"W","i","d","e","-","b","o","d","y">>}
    /\ \A i \in 1..Len(ct_paddles) :
          ct_paddles[i].specs.shape \in {<<"E","l","o","n","g","a","t","e","d">>, <<"H","y","b","r","i","d">>, <<"W","i","d","e","-","b","o","d","y">>}

\* the fallback rule of the specification: the first category, in the order
\* Elongated, Hybrid, Wide-body, with a keyword in the description; Wide-body
\* when there is none
ShapeOfDescription(description) ==
    LET d == IF description = None THEN <<>> ELSE Lower(description)
    IN  IF Contains(d, <<"e","l","o","n","g","a","t","e","d">>) \/ Contains(d, <<"l","o","n","g">>) THEN <<"E","l","o","n","g","a","t","e","d">>
        ELSE IF Contains(d, <<"h","y","b","r","i","d">>) THEN <<"H","y","b","r","i","d">>
        ELSE <<"W","i","d","e","-","b","o","d","y">>

\* C3: when no paddle length is available, the shape of the emitted record is
\* the one the description's keywords give, and Wide-body when none matches
C3_ShapeFromDescription ==
    /\ (GalaxyEmitted /\ gx_result.specs.paddle_length = None)
          => gx_result.specs.shape = ShapeOfDescription(gx_page.description)
    /\ (ct_last # NoPaddle /\ ct_i > 1
            /\ ~HasKey(ct_cards[ct_i - 1].page_specs, <<"p","a","d","d","l","e","_","l","e","n","g","t","h">>))
          => ct_last.specs.shape = ShapeOfDescription(ct_cards[ct_i - 1].description)

---------------------------------------------------------------------------
(* Claims about identity, missing fields and batches (checked under
   SpecAdapters) *)

\* the record's id is the one generate_paddle_id gives for the brand and
\* model the record stores, and the record names its source
IdMatchesMetadata(paddle) ==
    /\ paddle.id = generate_paddle_id(paddle.metadata.brand, paddle.metadata.model)
    /\ paddle.metadata.source # <<>>

\* C12: every record emitted by either adapter has
\* id = generate_paddle_id(metadata.brand, metadata.model) for the brand and
\* model it stores, and a non-empty metadata.source
C12_IdFromStoredNames ==
    /\ GalaxyEmitted => IdMatchesMetadata(gx_result)
    /\ \A i \in 1..Len(gx_paddles) : IdMatchesMetadata(gx_paddles[i])
    /\ \A i \in 1..Len(ct_paddles) : IdMatchesMetadata(ct_paddles[i])

\* a record whose brand is the known brand found in the url, the title's
\* first word being no known brand, has just been emitted
C12_Witness ==
    /\ GalaxyEmitted
    /\ gx_page.title_elem = <<"V","a","t","i","c"," ","P","r","o"," ","F","l","a","s","h"," ","1","6","m","m"," ","(","E","l","o","n","g","a","t","e","d",")">>
    /\ gx_result.metadata.brand = <<"S","e","l","k","i","r","k">>
    /\ gx_result.id = <<"s","e","l","k","i","r","k","-","v","a","t","i","c","-","p","r","o","-","f","l","a","s","h","-","1","6","m","m">>

\* the specs fields of a record, each with the name it goes by
SpecsFieldNames ==
    { <<"shape", <<"s","h","a","p","e">>>>, <<"surface", <<"s","u","r","f","a","c","e">>>>,
      <<"average_weight", <<"a","v","e","r","a","g","e","_","w","e","i","g","h","t">>>>, <<"core", <<"c","o","r","e">>>>,
      <<"paddle_length", <<"p","a","d","d","l","e","_","l","e","n","g","t","h">>>>, <<"paddle_width", <<"p","a","d","d","l","e","_","w","i","d","t","h">>>>,
      <<"grip_length", <<"g","r","i","p","_","l","e","n","g","t","h">>>>, <<"grip_type", <<"g","r","i","p","_","t","y","p","e">>>>,
      <<"grip_circumference", <<"g","r","i","p","_","c","i","r","c","u","m","f","e","r","e","n","c","e">>>> }

\* the name is in the missing-fields list of the call that has just returned
InMissingFields(name) == \E k \in 1..Len(gx_missing) : gx_missing[k] = name

\* C13: when scrape_paddle emits a record, every specs field left null
\* (paddle_length, paddle_width, average_weight and shape included) and a
\* defaulted brand, model or title is in the missing-fields list by name
C13_UnresolvedAreListed ==
    GalaxyEmitted =>
        /\ \A field \in SpecsFieldNames :
              gx_result.specs[field[1]] = None => InMissingFields(field[2])
        /\ gx_result.metadata.brand = <<"U","n","k","n","o","w","n">> => InMissingFields(<<"b","r","a","n","d">>)
        /\ gx_result.metadata.model = <<"U","n","k","n","o","w","n"," ","M","o","d","e","l">> => InMissingFields(<<"m","o","d","e","l">>)
        /\ (GalaxyTitleElem(gx_page) = None /\ gx_page.head_title = None)
              => InMissingFields(<<"t","i","t","l","e">>)

\* what the three strategies for the core thickness give on the page, in
\* their order: the structured entry, the description patterns, the title
CoreStrategies(page) ==
    << CoreFromSpecs(CollectSpecs(page.items, 1, EmptyDict)),
       CoreFromDescription(GalaxySpecsText(page)),
       CoreFromTitle(GalaxyTitle(page)) >>

\* the first result of the list that is a value, None when there is none
FirstResult(results) ==
    IF results[1] # None THEN results[1]
    ELSE IF results[2] # None THEN results[2]
    ELSE results[3]

\* C14 as stated: the core thickness of an emitted record is the result of
\* the first strategy, in the order structured entry, description patterns,
\* title, that produces a value; later strategies never replace it
C14_FirstStrategyWins ==
    GalaxyEmitted => gx_result.specs.core = FirstResult(CoreStrategies(gx_page))

\* C14: the core thickness of an emitted record is the result of the first
\* strategy, in the order structured entry, description patterns, title, that
\* produces a number other than zero; a later strategy supplies the value only
\* when every earlier one gave nothing or zero, and the field is null when
\* all three did
C14_FirstNonZeroStrategyWins ==
    GalaxyEmitted =>
        LET results == CoreStrategies(gx_page)
            core == gx_result.specs.core
        IN  /\ Truthy(results[1]) => core = results[1]
            /\ (~Truthy(results[1]) /\ Truthy(results[2])) => core = results[2]
            /\ (~Truthy(results[1]) /\ ~Truthy(results[2]) /\ Truthy(results[3]))
                  => core = results[3]
            /\ (~Truthy(results[1]) /\ ~Truthy(results[2]) /\ ~Truthy(results[3]))
                  => core = None

\* a record has been emitted for a page with no structured entry, a
\* description that gives 14 and a title that gives 19: the value is 14
C14_Witness ==
    /\ GalaxyEmitted
    /\ CoreStrategies(gx_page) = <<None, Rat(14, 1), Rat(19, 1)>>
    /\ gx_result.specs.core = Rat(14, 1)

\* the scan of the '.o-layout__item' texts from index i on in which the first
\* occurrence of a key keeps its value
RECURSIVE FirstOccurrences(_, _, _)
FirstOccurrences(items, i, specs_data) ==
    IF i > Len(items) THEN specs_data
    ELSE IF Contains(items[i], <<":">>)
            /\ ~HasKey(specs_data, Lower(Strip(SplitOnce(items[i], ":")[1])))
    THEN FirstOccurrences(items, i + 1,
             DictSet(specs_data, Lower(Strip(SplitOnce(items[i], ":")[1])),
                     Strip(SplitOnce(items[i], ":")[2])))
    ELSE FirstOccurrences(items, i + 1, specs_data)

\* C15: when a key occurs more than once among the '.o-layout__item' entries
\* of a page, every field of the emitted record is computed from the value of
\* the key's first occurrence
C15_FirstOccurrenceWins ==
    GalaxyEmitted =>
        LET first == FirstOccurrences(gx_page.items, 1, EmptyDict)
            specs_text == GalaxySpecsText(gx_page)
        IN  /\ gx_result.specs.paddle_length = GalaxyLength(first)
            /\ gx_result.specs.average_weight = GalaxyWeight(first)
            /\ gx_result.specs.paddle_width = GalaxyWidth(first)
            /\ gx_result.specs.surface = GalaxySurface(first, specs_text)
            /\ gx_result.specs.core = GalaxyCore(first, specs_text, GalaxyTitle(gx_page))
            /\ gx_result.specs.grip_length = GalaxyGripLength(first)
            /\ gx_result.specs.grip_type = GalaxyGripType(first)
            /\ gx_result.specs.grip_circumference = GalaxyGripCircumference(first)

\* nothing of the page's title is left for the model name once the brand, the
\* suffixes and the site names are removed
NoModelName(page) ==
    /\ page.fetched
    /\ ExtractedModel(GalaxyTitle(page), GalaxyBrand(GalaxyTitle(page), page.url)) = <<>>

\* C16: a page from which no model name can be derived, after the title
\* selectors, the <title> element and the url-derived name, is rejected:
\* scrape_paddle returns no record for it
C16_NoModelIsRejected ==
    (gx_pc = "scraped" /\ NoModelName(gx_page)) => gx_result = NoPaddle

\* the title resolved for the page, from its title element or its <title>, is
\* navigation text
NavigationTitle(page) ==
    page.fetched /\ Lower(GalaxyTitleText(page)) \in {<<"h","o","m","e">>, <<"p","r","o","d","u","c","t","s">>, <<"c","a","t","e","g","o","r","i","e","s">>, <<"p","a","d","d","l","e","s">>}

\* C17: when the title resolved for a page is navigation text, scrape_paddle
\* returns None and requests no image download for the page, and the step of
\* scrape_all that follows adds no record to the list
C17_NavigationTitleRejected ==
    [][ /\ (gx_pc' = "scraped" /\ NavigationTitle(gx_page'))
            => (gx_result' = NoPaddle /\ gx_image' = None)
        /\ (gx_pc = "scraped" /\ NavigationTitle(gx_page))
            => gx_paddles' = gx_paddles ]_vars

\* scrape_all has gone past a first page that has a product image and the
\* title "Categories", with nothing requested and nothing added, and has a
\* second url ahead
C17_Witness ==
    /\ gx_pc = "loop" /\ gx_i = 2 /\ Len(gx_urls) = 2
    /\ NavigationTitle(gx_urls[1])
    /\ gx_urls[1].closeup_src = <<"g","r","a","p","h","i","c","s","/","0","0","0","0","0","0","0","1","/","c","l","o","s","e","u","p","_","9","6","0","x","9","6","0",".","j","p","g">>
    /\ gx_result = NoPaddle /\ gx_image = None /\ gx_paddles = <<>>

\* the specs fields other than shape, each with the key of its entry among
\* the '.o-layout__item' entries of a Galaxy page and the key scrape_product_specs
\* gives it for a Central page
SourcedFields ==
    { <<"surface", <<"s","u","r","f","a","c","e"," ","m","a","t","e","r","i","a","l">>, <<"p","a","d","d","l","e","_","f","a","c","e">>>>,
      <<"average_weight", <<"w","e","i","g","h","t">>, <<"a","v","e","r","a","g","e","_","w","e","i","g","h","t">>>>,
      <<"core", <<"c","o","r","e"," ","t","h","i","c","k","n","e","s","s">>, <<"c","o","r","e","_","t","h","i","c","k","n","e","s","s">>>>,
      <<"paddle_length", <<"p","a","d","d","l","e"," ","l","e","n","g","t","h">>, <<"p","a","d","d","l","e","_","l","e","n","g","t","h">>>>,
      <<"paddle_width", <<"p","a","d","d","l","e"," ","w","i","d","t","h">>, <<"p","a","d","d","l","e","_","w","i","d","t","h">>>>,
      <<"grip_length", <<"h","a","n","d","l","e"," ","l","e","n","g","t","h">>, <<"h","a","n","d","l","e","_","l","e","n","g","t","h">>>>,
      <<"grip_type", <<"f","a","c","t","o","r","y"," ","g","r","i","p">>, <<"g","r","i","p","_","s","t","y","l","e">>>>,
      <<"grip_circumference", <<"g","r","i","p"," ","s","i","z","e">>, <<"g","r","i","p","_","c","i","r","c","u","m","f","e","r","e","n","c","e">>>> }

\* the Galaxy page has something the field can have been extracted from: its
\* entry, or, for the surface and the core, a description, or, for the core,
\* a title that names a thickness
GalaxyPageSource(page, field) ==
    \/ HasKey(CollectSpecs(page.items, 1, EmptyDict), field[2])
    \/ field[1] \in {"surface", "core"} /\ GalaxySpecsText(page) # <<>>
    \/ field[1] = "core" /\ Contains(Lower(GalaxyTitle(page)), <<"m","m">>)

\* the product page of the Central card has an entry for the field
CentralPageSource(card, field) ==
    card.product_url /\ HasKey(card.page_specs, field[3])

\* C18: in every emitted record each specs field other than shape is null or
\* comes from something on that product's page; no field is filled when the
\* page has nothing for it
C18_NoFixedDefaults ==
    /\ GalaxyEmitted =>
          \A field \in SourcedFields :
              gx_result.specs[field[1]] # None => GalaxyPageSource(gx_page, field)
    /\ (ct_last # NoPaddle /\ ct_i > 1) =>
          \A field \in SourcedFields :
              ct_last.specs[field[1]] # None => CentralPageSource(ct_cards[ct_i - 1], field)

\* the record carries no ratings: its performance is None, not a Performance
\* with its six numbers
NoPerformance(paddle) == Cardinality(DOMAIN paddle.performance) # 6

\* C19: no page of either site carries performance ratings, so every emitted
\* record has a null performance, and processing the same card again, whatever
\* the random draws, gives the same performance
C19_PerformanceNeverSynthesized ==
    /\ GalaxyEmitted => NoPerformance(gx_result)
    /\ \A i \in 1..Len(gx_paddles) : NoPerformance(gx_paddles[i])
    /\ \A i \in 1..Len(ct_paddles) : NoPerformance(ct_paddles[i])
    /\ (ct_last # NoPaddle /\ ct_i > 1) =>
          \A jitter \in Jitters :
              CentralRecord(ct_cards[ct_i - 1], jitter).performance = ct_last.performance

\* the item gave a record
IsPaddle(record) == record # NoPaddle

\* a record without its performance, which the Central adapter draws at random
Essentials(paddle) == [id |-> paddle.id, metadata |-> paddle.metadata, specs |-> paddle.specs]

\* the records of the first n pages that scrape_paddle succeeds on, in the
\* order of the pages
GalaxySucceeded(urls, n) ==
    SelectSeq([i \in 1..n |-> GalaxyRecord(urls[i])], IsPaddle)

\* the records, without performance, of the first n cards that are neither
\* skipped nor fail, in the order of the cards
CentralSucceeded(cards, n) ==
    LET jitter == CHOOSE j \in Jitters : TRUE
        kept == SelectSeq([i \in 1..n |-> CentralRecord(cards[i], jitter)], IsPaddle)
    IN  [i \in 1..Len(kept) |-> Essentials(kept[i])]

\* C20: whichever items of a batch fail, by a fetch failure, a rejection, a
\* skip or an exception, both loops go through every item, and the list they
\* build is exactly the records of the items that succeeded, in input order
C20_BatchIsolation ==
    /\ gx_pc \in {"loop", "done"} => gx_paddles = GalaxySucceeded(gx_urls, gx_i - 1)
    /\ gx_pc = "done" => gx_i = Len(gx_urls) + 1
    /\ ct_pc \in {"loop", "done"} =>
          [i \in 1..Len(ct_paddles) |-> Essentials(ct_paddles[i])]
              = CentralSucceeded(ct_cards, ct_i - 1)
    /\ ct_pc = "done" => ct_i = Len(ct_cards) + 1

\* scrape_all has returned from a crawl whose first url could not be fetched
\* and whose second gave a record
C20_Witness ==
    /\ gx_pc = "done" /\ Len(gx_urls) = 2
    /\ ~gx_urls[1].fetched
    /\ gx_paddles = <<GalaxyRecord(gx_urls[2])>>
    /\ gx_paddles[1] # NoPaddle
---------------------------------------------------------------------------
(* Claims about the requests of a crawl (checked under SpecAdapters) *)

IsRequest(event) == event # "sleep"

\* C21: during a crawl a delay occurs between every two consecutive network
\* requests: no two requests are made back to back without a sleep between
C21_DelayBetweenFetches ==
    \A k \in 1..(Len(net_log) - 1) : ~(IsRequest(net_log[k]) /\ IsRequest(net_log[k + 1]))

\* the number of listing pages requested so far
ListingFetches == Cardinality({k \in 1..Len(net_log) : net_log[k] = "get listing"})

\* listing page number p, as get_page gives it
ListingPage(listing, p) == IF p <= Len(listing) THEN listing[p] ELSE NoListingPage

\* the claim's stopping rule: the page cannot be fetched, has no paddle links,
\* or is numbered 2 or more and has no next-page link
ListingStops(listing, p) ==
    \/ ~ListingPage(listing, p).fetched
    \/ ListingPage(listing, p).links = <<>>
    \/ p >= 2 /\ ~ListingPage(listing, p).has_next

\* the number of the last page the claim has fetched
LastListingPage(listing) ==
    IF \E p \in 1..10 : ListingStops(listing, p)
    THEN CHOOSE p \in 1..10 :
            ListingStops(listing, p) /\ \A q \in 1..(p - 1) : ~ListingStops(listing, q)
    ELSE 10

\* the urls of the links of pages 1..p
RECURSIVE UrlsOfPages(_, _)
UrlsOfPages(listing, p) ==
    IF p = 0 THEN <<>>
    ELSE UrlsOfPages(listing, p - 1) \o LinkUrls(ListingPage(listing, p).links, 1)

\* C28: get_paddle_urls ends after at most 10 listing pages: it stops at the
\* first page that cannot be fetched or has no paddle links and after any page
\* numbered 2 or more without a next-page link, page 1 with paddle links is
\* always followed by page 2, and the urls collected up to there are returned
C28_ListingBounded ==
    gx_pc \in {"loop", "scraped", "done"} =>
        /\ ListingFetches <= 10
        /\ ListingFetches = LastListingPage(gx_listing)
        /\ (ListingPage(gx_listing, 1).fetched /\ ListingPage(gx_listing, 1).links # <<>>)
              => ListingFetches >= 2
        /\ gx_urls = UrlsOfPages(gx_listing, LastListingPage(gx_listing))

\* get_paddle_urls has returned from a site of eleven full listing pages
C28_Witness ==
    /\ gx_pc = "loop" /\ gx_i = 1
    /\ Len(gx_listing) >= 11
    /\ \A p \in 1..11 : ~ListingStops(gx_listing, p)
    /\ ListingFetches = 10
    /\ Len(gx_urls) = 10

---------------------------------------------------------------------------
(* download_image called twice for one product (image_downloader.py) *)

ImageUrls ==
    { None, <<>>,
      <<"h","t","t","p","s",":","/","/","w","w","w",".","p","i","c","k","l","e","b","a","l","l","g","a","l","a","x","y",".","c","o","m","/","m","m","5","/","g","r","a","p","h","i","c","s","/","0","0","0","0","0","0","0","1","/","6","/","s","e","l","k","-","e","r","a","-","e","l","o","n","g","-","c","y","a","n","_","9","6","0","x","9","6","0",".","j","p","g">>,
      <<"h","t","t","p","s",":","/","/","c","d","n",".","e","x","a","m","p","l","e",".","c","o","m","/","a","/","s","e","l","k",".","J","P","G","?","v","=","1",".","p","n","g">>,
      <<"h","t","t","p","s",":","/","/","c","d","n",".","e","x","a","m","p","l","e",".","c","o","m","/","v","1",".","2","/","s","e","l","k">>,
      <<"h","t","t","p","s",":","/","/","c","d","n",".","e","x","a","m","p","l","e",".","c","o","m","/","s","e","l","k",".","t","i","f","f">>,
      <<"h","t","t","p","s",":","/","/","c","d","n",".","e","x","a","m","p","l","e",".","c","o","m","/","s","e","l","k",".","w","e","b","p",";","v","=","2">>,
      <<"g","r","a","p","h","i","c","s","/","s","e","l","k",".","p","n","g","#","t","o","p">> }

ImageBrands == { <<"S","e","l","k","i","r","k">>, <<"V","a","t","i","c"," ","P","r","o">>, <<"A","/","B">>, <<".",".">> }
ImageModels == { <<"S","L","K"," ","E","R","A"," ","P","o","w","e","r"," ","E","l","o","n","g","a","t","e","d">>, <<"F","l","a","s","h"," "," ","1","6","m","m",".">> }
ImageFolders == { <<"i","m","a","g","e","s">>, <<"t","e","s","t","_","i","m","a","g","e","s">> }

\* what is on disk before the first call: nothing, or the file of one product
ImageDisks ==
    { {},
      { <<<<"i","m","a","g","e","s">>, Directory>>, <<<<"i","m","a","g","e","s","/","S","e","l","k","i","r","k">>, Directory>>,
        <<<<"i","m","a","g","e","s","/","S","e","l","k","i","r","k","/","S","e","l","k","i","r","k","_","S","L","K","_","E","R","A","_","P","o","w","e","r","_","E","l","o","n","g","a","t","e","d",".","j","p","g">>, <<"bytes", 1>> >> } }

InitImage ==
    /\ fs_files \in ImageDisks
    /\ net_log = <<>>
    /\ im_url \in ImageUrls
    /\ im_brand \in ImageBrands
    /\ im_model \in ImageModels
    /\ im_folder \in ImageFolders
    /\ im_url2 = None
    /\ im_response = None
    /\ im_ret = None
    /\ im_files = {}
    /\ im_log = <<>>
    /\ im_ret2 = None
    /\ im_pc = "call"

IdleImage ==
    /\ im_url = None
    /\ im_brand = <<>>
    /\ im_model = <<>>
    /\ im_folder = <<>>
    /\ im_url2 = None
    /\ im_response = None
    /\ im_ret = None
    /\ im_files = {}
    /\ im_log = <<>>
    /\ im_ret2 = None
    /\ im_pc = "idle"

\* download_image(im_url, im_brand, im_model, im_folder), the server
\* answering with response if it is asked
CallDownloadImage ==
    /\ im_pc = "call"
    /\ \E response \in ImageResponses :
          LET saved == download_image(im_url, im_brand, im_model, im_folder, fs_files, response)
          IN  /\ im_response' = response
              /\ im_ret' = saved.ret
              /\ fs_files' = saved.files
              /\ im_files' = saved.files
              /\ im_log' = net_log \o saved.requests
              /\ net_log' = net_log \o saved.requests
    /\ im_pc' = "first"
    /\ UNCHANGED <<im_url, im_brand, im_model, im_folder, im_url2, im_ret2>>
    /\ UNCHANGED notImageVars

\* a later download_image for the same brand, model and folder, with any url
CallDownloadImageAgain ==
    /\ im_pc = "first"
    /\ \E url \in ImageUrls, response \in ImageResponses :
          LET saved == download_image(url, im_brand, im_model, im_folder, fs_files, response)
          IN  /\ im_url2' = url
              /\ im_ret2' = saved.ret
              /\ fs_files' = saved.files
              /\ net_log' = net_log \o saved.requests
    /\ im_pc' = "again"
    /\ UNCHANGED <<im_url, im_brand, im_model, im_folder, im_response, im_ret, im_files, im_log>>
    /\ UNCHANGED notImageVars

NextImage == CallDownloadImage \/ CallDownloadImageAgain

\* the content of the file at path, None when there is no such file
FileContent(files, path) ==
    IF PathExists(files, path) THEN (CHOOSE f \in files : f[1] = path)[2] ELSE None

HasUrl(url) == url # None /\ url # <<>>

\* C29: after a download_image that succeeded, a later call with the same
\* brand, model and extension makes no request, leaves the file unchanged and
\* returns the same path; a download that fails returns None
C29_DownloadIdempotent ==
    /\ (im_pc \in {"first", "again"} /\ im_log # <<>> /\ im_response = RequestFailed)
          => im_ret = None
    /\ (im_pc = "again" /\ im_ret # None /\ HasUrl(im_url2)
            /\ ImageExtension(im_url2) = ImageExtension(im_url))
          => /\ net_log = im_log
             /\ im_ret2 = im_ret
             /\ FileContent(fs_files, im_ret) = FileContent(im_files, im_ret)
             /\ fs_files = im_files

\* the first call has downloaded the file and the second call, with another url
\* of the same extension and another answer of the server, has returned
C29_Witness ==
    /\ im_pc = "again"
    /\ im_log = <<"get image">> /\ im_response = <<"bytes", 1>>
    /\ im_ret = <<"t","e","s","t","_","i","m","a","g","e","s","/","V","a","t","i","c","_","P","r","o","/","V","a","t","i","c","_","P","r","o","_","F","l","a","s","h","_","1","6","m","m",".","j","p","g">>
    /\ im_url = <<"h","t","t","p","s",":","/","/","c","d","n",".","e","x","a","m","p","l","e",".","c","o","m","/","s","e","l","k",".","t","i","f","f">>
    /\ im_url2 = <<"h","t","t","p","s",":","/","/","c","d","n",".","e","x","a","m","p","l","e",".","c","o","m","/","v","1",".","2","/","s","e","l","k">>
    /\ im_ret2 = im_ret
    /\ FileContent(fs_files, im_ret) = <<"bytes", 1>>

---------------------------------------------------------------------------
(* The image of a product page: scrape_paddle on the parsed page and
   extract_image_url_from_galaxy_html on its text.  A page is the sequence of
   its <img> tags, a tag the sequence of its <<name, value>> attributes. *)

\* tag.get(name): the value of the attribute, None when the tag has none
RECURSIVE AttrFrom(_, _, _)
AttrFrom(tag, name, k) ==
    IF k > Len(tag) THEN None
    ELSE IF tag[k][1] = name THEN tag[k][2]
    ELSE AttrFrom(tag, name, k + 1)

Attr(tag, name) == AttrFrom(tag, name, 1)

\* the tag has the class among the classes of its class attribute
HasClass(tag, class) ==
    /\ Attr(tag, <<"c","l","a","s","s">>) # None
    /\ \E k \in 1..Len(SplitWs(Attr(tag, <<"c","l","a","s","s">>))) : SplitWs(Attr(tag, <<"c","l","a","s","s">>))[k] = class

\* soup.select_one('img#...'): the src of the first tag with the id, None when
\* there is no such tag
RECURSIVE SelectById(_, _, _)
SelectById(tags, id, k) ==
    IF k > Len(tags) THEN None
    ELSE IF Attr(tags[k], <<"i","d">>) = id THEN Attr(tags[k], <<"s","r","c">>)
    ELSE SelectById(tags, id, k + 1)

\* soup.select_one('img....'): the src of the first tag of the class
RECURSIVE SelectByClass(_, _, _)
SelectByClass(tags, class, k) ==
    IF k > Len(tags) THEN None
    ELSE IF HasClass(tags[k], class) THEN Attr(tags[k], <<"s","r","c">>)
    ELSE SelectByClass(tags, class, k + 1)

\* soup.select('img[src*="graphics"]'): the src of every tag whose src has
\* 'graphics' in it
RECURSIVE SelectGraphicsSrcs(_, _)
SelectGraphicsSrcs(tags, k) ==
    IF k > Len(tags) THEN <<>>
    ELSE IF Attr(tags[k], <<"s","r","c">>) # None /\ Contains(Attr(tags[k], <<"s","r","c">>), <<"g","r","a","p","h","i","c","s">>)
    THEN <<Attr(tags[k], <<"s","r","c">>)>> \o SelectGraphicsSrcs(tags, k + 1)
    ELSE SelectGraphicsSrcs(tags, k + 1)

\* what the selectors of scrape_paddle (galaxy_scraper.py lines 499, 519, 538
\* and 559) find on the page
ParsedImages(tags) ==
    [ closeup_src |-> SelectById(tags, <<"c","l","o","s","e","u","p","_","i","m","a","g","e">>, 1),
      main_src |-> SelectById(tags, <<"m","a","i","n","_","i","m","a","g","e">>, 1),
      layout_src |-> SelectByClass(tags, <<"x","-","p","r","o","d","u","c","t","-","l","a","y","o","u","t","-","i","m","a","g","e","s","_","_","i","m","a","g","e">>, 1),
      graphics_srcs |-> SelectGraphicsSrcs(tags, 1) ]

\* the text of a tag and of a page
RECURSIVE RenderAttrs(_, _)
RenderAttrs(tag, k) ==
    IF k > Len(tag) THEN <<>>
    ELSE <<" ">> \o tag[k][1] \o <<"=", "\"">> \o tag[k][2] \o <<"\"">> \o RenderAttrs(tag, k + 1)

RECURSIVE RenderHtml(_, _)
RenderHtml(tags, k) ==
    IF k > Len(tags) THEN <<>>
    ELSE <<"<","i","m","g">> \o RenderAttrs(tags[k], 1) \o <<">">> \o <<"\n">> \o RenderHtml(tags, k + 1)

---------------------------------------------------------------------------
(* Regular expressions made of literals, [^c]* and [^c]+ and one group *)

Lit(text) == [t |-> "lit", text |-> text, not |-> {}]
StarNot(chars) == [t |-> "star", text |-> <<>>, not |-> chars]
PlusNot(chars) == [t |-> "plus", text |-> <<>>, not |-> chars]
Open == [t |-> "open", text |-> <<>>, not |-> {}]
Close == [t |-> "close", text |-> <<>>, not |-> {}]

NoMatch == [ok |-> FALSE, start |-> 0, open |-> 0, close |-> 0, end |-> 0]

\* the length of the run of characters outside chars that starts at index i
RunNot(s, i, chars) ==
    LET stops == {j \in i..Len(s) : s[j] \in chars}
    IN  IF stops = {} THEN Len(s) + 1 - i
        ELSE (CHOOSE j \in stops : \A h \in stops : j <= h) - i

\* the match of the elements k.. of pattern at index i of s that a
\* backtracking matcher finds first: a repetition takes as many characters as
\* it can and gives them back one at a time, so the longest run after which
\* the rest of the pattern matches is the one it keeps
RECURSIVE MatchHere(_, _, _, _, _)
MatchHere(pattern, k, s, i, found) ==
    IF k > Len(pattern) THEN [found EXCEPT !.ok = TRUE, !.end = i]
    ELSE IF pattern[k].t = "lit"
    THEN IF MatchAt(s, i, pattern[k].text)
         THEN MatchHere(pattern, k + 1, s, i + Len(pattern[k].text), found)
         ELSE NoMatch
    ELSE IF pattern[k].t = "open" THEN MatchHere(pattern, k + 1, s, i, [found EXCEPT !.open = i])
    ELSE IF pattern[k].t = "close" THEN MatchHere(pattern, k + 1, s, i, [found EXCEPT !.close = i])
    ELSE LET least == IF pattern[k].t = "plus" THEN 1 ELSE 0
             runs == {n \in least..RunNot(s, i, pattern[k].not) :
                         MatchHere(pattern, k + 1, s, i + n, found).ok}
         IN  IF runs = {} THEN NoMatch
             ELSE MatchHere(pattern, k + 1, s,
                            i + (CHOOSE n \in runs : \A m \in runs : m <= n), found)

\* re.search(pattern, s) from index i on: the match at the leftmost index
\* that has one
Search(pattern, s, i) ==
    LET starts == {j \in i..(Len(s) + 1) :
                      MatchHere(pattern, 1, s, j, [NoMatch EXCEPT !.start = j]).ok}
    IN  IF starts = {} THEN NoMatch
        ELSE LET first == CHOOSE j \in starts : \A h \in starts : j <= h
             IN  MatchHere(pattern, 1, s, first, [NoMatch EXCEPT !.start = first])

\* match.group(1)
Group(s, found) == Slice(s, found.open, found.close - 1)

\* re.findall(pattern, s) for a pattern with one group that matches no empty
\* text: the groups of the matches, left to right, none overlapping
RECURSIVE FindAll(_, _, _)
FindAll(pattern, s, i) ==
    LET found == Search(pattern, s, i)
    IN  IF ~found.ok THEN <<>>
        ELSE <<Group(s, found)>> \o FindAll(pattern, s, found.end)

---------------------------------------------------------------------------
(* image_downloader.py: extract_image_url_from_galaxy_html *)

\* r'<img[^>]*id="closeup_image"[^>]*src="([^"]+)"'
closeup_pattern ==
    << Lit(<<"<","i","m","g">>), StarNot({">"}), Lit(<<"i","d","=">> \o <<"\"">> \o <<"c","l","o","s","e","u","p","_","i","m","a","g","e">> \o <<"\"">>),
       StarNot({">"}), Lit(<<"s","r","c","=">> \o <<"\"">>), Open, PlusNot({"\""}), Close, Lit(<<"\"">>) >>

\* r'<img[^>]*id="main_image"[^>]*src="([^"]+)"'
main_pattern ==
    << Lit(<<"<","i","m","g">>), StarNot({">"}), Lit(<<"i","d","=">> \o <<"\"">> \o <<"m","a","i","n","_","i","m","a","g","e">> \o <<"\"">>),
       StarNot({">"}), Lit(<<"s","r","c","=">> \o <<"\"">>), Open, PlusNot({"\""}), Close, Lit(<<"\"">>) >>

\* r'<img[^>]*class="[^"]*x-product-layout-images__image[^"]*"[^>]*src="([^"]+)"'
layout_pattern ==
    << Lit(<<"<","i","m","g">>), StarNot({">"}), Lit(<<"c","l","a","s","s","=">> \o <<"\"">>), StarNot({"\""}),
       Lit(<<"x","-","p","r","o","d","u","c","t","-","l","a","y","o","u","t","-","i","m","a","g","e","s","_","_","i","m","a","g","e">>), StarNot({"\""}), Lit(<<"\"">>),
       StarNot({">"}), Lit(<<"s","r","c","=">> \o <<"\"">>), Open, PlusNot({"\""}), Close, Lit(<<"\"">>) >>

\* r'<img[^>]*src="([^"]*graphics[^"]*)"'
img_pattern_fallback ==
    << Lit(<<"<","i","m","g">>), StarNot({">"}), Lit(<<"s","r","c","=">> \o <<"\"">>), Open, StarNot({"\""}),
       Lit(<<"g","r","a","p","h","i","c","s">>), StarNot({"\""}), Close, Lit(<<"\"">>) >>

\* the url of priorities 1 to 3 when the pattern matches and the src passes
\* the filter (lines 101-140), None otherwise
PatternImage(pattern, html_content) ==
    LET match == Search(pattern, html_content, 1)
    IN  IF match.ok THEN ImageCandidate(Group(html_content, match)) ELSE None

extract_image_url_from_galaxy_html(html_content) ==
    IF PatternImage(closeup_pattern, html_content) # None
    THEN PatternImage(closeup_pattern, html_content)
    ELSE IF PatternImage(main_pattern, html_content) # None
    THEN PatternImage(main_pattern, html_content)
    ELSE IF PatternImage(layout_pattern, html_content) # None
    THEN PatternImage(layout_pattern, html_content)
    ELSE GraphicsImage(FindAll(img_pattern_fallback, html_content, 1), 1)

---------------------------------------------------------------------------
(* Both selections applied to bounded pages *)

\* the number of <img> tags of a page
MaxImgTags == 2

\* a tag that writes its id and class before its src, as the site does, and
\* one that writes its src first
IdFirst(id, class, src) ==
    (IF id = None THEN <<>> ELSE << <<<<"i","d">>, id>> >>)
    \o (IF class = None THEN <<>> ELSE << <<<<"c","l","a","s","s">>, class>> >>)
    \o (IF src = None THEN <<>> ELSE << <<<<"s","r","c">>, src>> >>)

SrcFirst(id, class, src) ==
    << <<<<"s","r","c">>, src>> >>
    \o (IF id = None THEN <<>> ELSE << <<<<"i","d">>, id>> >>)
    \o (IF class = None THEN <<>> ELSE << <<<<"c","l","a","s","s">>, class>> >>)

\* the closeup image, the main image, an image of the layout and any other
\* image, each with a src that passes the filter and one that does not
ImgTags ==
    { IdFirst(<<"c","l","o","s","e","u","p","_","i","m","a","g","e">>, <<"u","-","h","i","d","e","-","v","i","s","u","a","l","l","y">>, src) :
         src \in {<<"g","r","a","p","h","i","c","s","/","1","/","c","_","9","6","0","x","9","6","0",".","j","p","g">>, <<"g","r","a","p","h","i","c","s","/","b","l","a","n","k",".","g","i","f">>, <<"/","i","m","g","/","c","_","9","6","0","x","9","6","0",".","j","p","g">>, None} }
    \cup { IdFirst(<<"m","a","i","n","_","i","m","a","g","e">>, <<"x","-","p","r","o","d","u","c","t","-","l","a","y","o","u","t","-","i","m","a","g","e","s","_","_","i","m","a","g","e">>, src) :
         src \in {<<"g","r","a","p","h","i","c","s","/","1","/","m","_","4","8","0","x","4","8","0",".","j","p","g">>, <<"g","r","a","p","h","i","c","s","/","1","/","L","o","g","o","_","4","8","0","x","4","8","0",".","p","n","g">>} }
    \cup { IdFirst(None, <<"b","i","g"," ","x","-","p","r","o","d","u","c","t","-","l","a","y","o","u","t","-","i","m","a","g","e","s","_","_","i","m","a","g","e">>, src) :
         src \in {<<"g","r","a","p","h","i","c","s","/","1","/","l",".","j","p","g">>, <<"g","r","a","p","h","i","c","s","/","1","/","h","e","a","d","e","r",".","j","p","g">>} }
    \cup { IdFirst(None, None, src) :
         src \in {<<"g","r","a","p","h","i","c","s","/","1","/","p","_","4","8","0","x","4","8","0",".","j","p","g">>, <<"g","r","a","p","h","i","c","s","/","1","/","p","_","8","0","x","8","0",".","j","p","g">>, <<"b","a","n","n","e","r",".","p","n","g">>} }
    \cup { SrcFirst(<<"c","l","o","s","e","u","p","_","i","m","a","g","e">>, None, <<"g","r","a","p","h","i","c","s","/","1","/","c","_","9","6","0","x","9","6","0",".","j","p","g">>),
           SrcFirst(<<"m","a","i","n","_","i","m","a","g","e">>, <<"x","-","p","r","o","d","u","c","t","-","l","a","y","o","u","t","-","i","m","a","g","e","s","_","_","i","m","a","g","e">>, <<"g","r","a","p","h","i","c","s","/","1","/","m","_","4","8","0","x","4","8","0",".","j","p","g">>),
           SrcFirst(None, None, <<"g","r","a","p","h","i","c","s","/","1","/","p","_","9","6","0","x","9","6","0",".","p","n","g">>) }

HtmlPages == UNION {[1..n -> ImgTags] : n \in 0..MaxImgTags}

InitHtml ==
    /\ hx_tags \in HtmlPages
    /\ hx_scraped = None
    /\ hx_extracted = None
    /\ hx_pc = "page"

IdleHtml ==
    /\ hx_tags = <<>>
    /\ hx_scraped = None
    /\ hx_extracted = None
    /\ hx_pc = "idle"

\* scrape_paddle chooses image_url on the parsed page (galaxy_scraper.py
\* lines 498-576)
ScrapePaddleImage ==
    /\ hx_pc = "page"
    /\ hx_scraped' = GalaxyImageUrl(ParsedImages(hx_tags))
    /\ hx_pc' = "scraped"
    /\ UNCHANGED <<hx_tags, hx_extracted>>
    /\ UNCHANGED notHtmlVars

\* extract_image_url_from_galaxy_html on the text of the same page
ExtractImageFromHtml ==
    /\ hx_pc = "scraped"
    /\ hx_extracted' = extract_image_url_from_galaxy_html(RenderHtml(hx_tags, 1))
    /\ hx_pc' = "done"
    /\ UNCHANGED <<hx_tags, hx_scraped>>
    /\ UNCHANGED notHtmlVars

NextHtml == ScrapePaddleImage \/ ExtractImageFromHtml

\* the candidates of a page in the order of their priority: the src of
\* img#closeup_image, of img#main_image and of the layout image, then the
\* 'graphics' images
Filtered(src) ==
    \/ src = None
    \/ ~StartsWith(src, <<"g","r","a","p","h","i","c","s","/">>)
    \/ EndsWith(src, <<"b","l","a","n","k",".","g","i","f">>)
    \/ Contains(Lower(src), <<"l","o","g","o">>)
    \/ Contains(Lower(src), <<"h","e","a","d","e","r">>)
    \/ Contains(Lower(src), <<"b","a","n","n","e","r">>)

\* the first 'graphics' image that is neither filtered nor a thumbnail and
\* has the size of a product image
QualifyingGraphics(srcs) ==
    LET good == {k \in 1..Len(srcs) :
                    /\ ~Filtered(srcs[k])
                    /\ ~EndsWith(srcs[k], <<"_","8","0","x","8","0",".","j","p","g">>) /\ ~EndsWith(srcs[k], <<"_","8","0","x","8","0",".","p","n","g">>)
                    /\ (Contains(srcs[k], <<"_","4","8","0","x","4","8","0">>) \/ Contains(srcs[k], <<"_","9","6","0","x","9","6","0">>))}
    IN  IF good = {} THEN None ELSE srcs[CHOOSE k \in good : \A j \in good : k <= j]

\* the src the claim selects on a parsed page
SelectedSrc(images) ==
    IF ~Filtered(images.closeup_src) THEN images.closeup_src
    ELSE IF ~Filtered(images.main_src) THEN images.main_src
    ELSE IF ~Filtered(images.layout_src) THEN images.layout_src
    ELSE QualifyingGraphics(images.graphics_srcs)

\* C25: the image url chosen for a page is that of the candidate of highest
\* priority (closeup, main, layout, first qualifying 'graphics' image) whose
\* src passes the filter, None when there is none, and never ends in
\* blank.gif nor contains logo, header or banner; scrape_paddle and
\* extract_image_url_from_galaxy_html choose the same url for the same page
C25_SameImageUrl ==
    /\ hx_pc \in {"scraped", "done"} =>
          /\ hx_scraped = (IF SelectedSrc(ParsedImages(hx_tags)) = None THEN None
                           ELSE <<"h","t","t","p","s",":","/","/","w","w","w",".","p","i","c","k","l","e","b","a","l","l","g","a","l","a","x","y",".","c","o","m","/","m","m","5","/">>
                                    \o SelectedSrc(ParsedImages(hx_tags)))
          /\ hx_scraped # None =>
                /\ ~EndsWith(hx_scraped, <<"b","l","a","n","k",".","g","i","f">>)
                /\ ~Contains(Lower(hx_scraped), <<"l","o","g","o">>)
                /\ ~Contains(Lower(hx_scraped), <<"h","e","a","d","e","r">>)
                /\ ~Contains(Lower(hx_scraped), <<"b","a","n","n","e","r">>)
    /\ hx_pc = "done" => hx_extracted = hx_scraped

\* the part of C25 that is about scrape_paddle alone
ScrapedImageIsSelected ==
    hx_pc \in {"scraped", "done"} =>
        hx_scraped = (IF SelectedSrc(ParsedImages(hx_tags)) = None THEN None
                      ELSE <<"h","t","t","p","s",":","/","/","w","w","w",".","p","i","c","k","l","e","b","a","l","l","g","a","l","a","x","y",".","c","o","m","/","m","m","5","/">>
                               \o SelectedSrc(ParsedImages(hx_tags)))

\* every tag of the page writes its id and class before its src
SiteOrder(tags) ==
    \A k \in 1..Len(tags) : tags[k] = <<>> \/ tags[k][1][1] # <<"s","r","c">> \/ Len(tags[k]) = 1

\* the two functions agree on the pages that keep the order of the site
SameImageUrlInSiteOrder ==
    (hx_pc = "done" /\ SiteOrder(hx_tags)) => hx_extracted = hx_scraped

---------------------------------------------------------------------------
(* Claims about the two extract_float functions (checked under SpecFloat) *)

\* C24: for every text data_models.extract_float returns what
\* paddle_scraper.extract_float returns, so that a size such as "4 1/8" is
\* 4.125 or None and never another number
C24_NormalizersAgree ==
    fl_pc = "done" => fl_dm = fl_ps

---------------------------------------------------------------------------
(* PaddleScrapeTool.py: HeuristicScrapeTool *)

\* re.search(r"([0-9\.]+)\s*(lbs|oz|inches|cm|g|mm)?", s).group(1): the first
\* longest run of digits and points, or None when the text has neither
SpecNumberSearch(s) ==
    LET cls == DigitChars \cup {"."}
    IN  IF \A i \in 1..Len(s) : s[i] \notin cls THEN None
        ELSE LET i == CHOOSE k \in 1..Len(s) :
                         s[k] \in cls /\ \A j \in 1..(k - 1) : s[j] \notin cls
             IN  Slice(s, i, i + Span(From(s, i), cls) - 1)

\* HeuristicScrapeTool.extract_spec_value: the float of the first run of
\* digits and points of a text that holds the keyword; float() raises
\* ValueError and nothing catches it
extract_spec_value(specs_text, keyword) ==
    IF specs_text # None /\ specs_text # <<>> /\ Contains(Lower(specs_text), keyword)
    THEN LET group == SpecNumberSearch(specs_text)
         IN  IF group = None THEN None ELSE PyFloat(group)
    ELSE None

\* \b at position i of s (between s[i-1] and s[i])
WordBoundary(s, i) ==
    LET before == i > 1 /\ IsWordChar(s[i - 1])
        after  == i <= Len(s) /\ IsWordChar(s[i])
    IN  before # after

\* the keyword stands at j as a whole word, in any case, and a point follows
\* with no point in between
KeywordSentenceAt(text, keyword, j) ==
    /\ MatchAt(Lower(text), j, keyword)
    /\ WordBoundary(text, j) /\ WordBoundary(text, j + Len(keyword))
    /\ \E k \in (j + Len(keyword))..Len(text) : text[k] = "."

\* HeuristicScrapeTool.get_surrounding_text: the first sentence, up to and
\* with its point, that holds the keyword as a whole word
get_surrounding_text(text, keyword) ==
    LET at == {j \in 1..Len(text) : KeywordSentenceAt(text, keyword, j)}
    IN  IF at = {} THEN None
        ELSE LET j == CHOOSE x \in at : \A y \in at : x <= y
                 start == CHOOSE i \in 1..j :
                              /\ \A k \in i..(j - 1) : text[k] # "."
                              /\ i > 1 => text[i - 1] = "."
                 stop == CHOOSE k \in j..Len(text) :
                              text[k] = "." /\ \A m \in j..(k - 1) : text[m] # "."
             IN  Slice(text, start, stop)

\* HeuristicScrapeTool.extract_from_text on the page's text: the sentence of
\* the first keyword that has one
RECURSIVE extract_from_text(_, _)
extract_from_text(page_text, keywords) ==
    IF keywords = <<>> THEN None
    ELSE LET keyword == Head(keywords)
             surrounding_text ==
                 IF Contains(Lower(page_text), keyword)
                 THEN get_surrounding_text(page_text, keyword) ELSE None
         IN  IF surrounding_text # None /\ surrounding_text # <<>>
             THEN Strip(surrounding_text)
             ELSE extract_from_text(page_text, Tail(keywords))

\* forward(): the keywords of the specs sentence
specs_keywords == <<<<"s","p","e","c">>, <<"s","p","e","c","s">>, <<"f","e","a","t","u","r","e","s">>, <<"d","e","t","a","i","l","s">>, <<"d","e","s","c","r","i","p","t","i","o","n">>>>

\* forward(): the keywords extract_spec_value is called with when the page
\* has a specs sentence
SpecsValueKeywords ==
    {<<"s","h","a","p","e">>, <<"s","u","r","f","a","c","e">>, <<"w","e","i","g","h","t">>, <<"c","o","r","e">>, <<"l","e","n","g","t","h">>, <<"w","i","d","t","h">>,
     <<"g","r","i","p"," ","l","e","n","g","t","h">>, <<"g","r","i","p"," ","t","y","p","e">>, <<"g","r","i","p"," ","c","i","r","c","u","m","f","e","r","e","n","c","e">>}

\* forward(): the keywords extract_spec_value is called with on every page
PerformanceValueKeywords ==
    {<<"p","o","w","e","r">>, <<"p","o","p">>, <<"s","p","i","n">>, <<"t","w","i","s","t"," ","w","e","i","g","h","t">>, <<"s","w","i","n","g"," ","w","e","i","g","h","t">>,
     <<"b","a","l","a","n","c","e"," ","p","o","i","n","t">>}

---------------------------------------------------------------------------
(* The heuristic tool as a state machine: a page's text, its specs sentence,
   one call of extract_spec_value *)

\* page texts: sentences with and without a keyword, a number, a point
HeuristicPages ==
    {<<>>,
     <<"N","o"," ","p","a","d","d","l","e"," ","h","e","r","e",".">>,
     <<"S","p","e","c","s",":"," ","w","e","i","g","h","t"," ","7",".","8"," ","o","z","."," ","N","i","c","e",".">>,
     <<"S","p","e","c","s"," ","i","n","c","l","u","d","e"," ","a"," ","l","i","g","h","t"," ","w","e","i","g","h","t",".">>,
     <<"F","e","a","t","u","r","e","s",":"," ","p","o","w","e","r"," ","9"," ","a","n","d"," ","s","p","i","n"," ","8",".">>,
     <<"w","e","i","g","h","t"," ","8"," ","o","z"," ","s","p","e","c","s",".">>,
     <<"D","e","s","c","r","i","p","t","i","o","n"," ","o","f"," ","c","o","r","e"," ","1","6","m","m"," ","t","h","i","c","k",".">>,
     <<"D","e","t","a","i","l","s","."," ","T","h","e"," ","w","e","i","g","h","t"," ","i","s"," ","l","i","g","h","t",".">>,
     <<"S","w","i","n","g"," ","w","e","i","g","h","t"," ","1","1","5"," ","d","e","t","a","i","l","s">>,
     <<"G","r","e","a","t"," ","p","o","p","."," ","P","a","d","d","l","e"," ","d","e","t","a","i","l","s",":"," ","p","o","p"," ","a","n","d"," ","p","o","w","e","r",".">>,
     <<"I","t","e","m"," ","1","2","."," ","S","p","e","c","s"," ","f","o","l","l","o","w","."," ","W","i","d","t","h"," ","7",".","5"," ","i","n",".">>}

\* specs texts a caller passes directly
DirectSpecsTexts ==
    {None, <<>>, <<".">>, <<"w","e","i","g","h","t">>, <<"w","e","i","g","h","t"," ",".">>, <<"w","e","i","g","h","t"," ","1",".","2",".","3">>,
     <<"w","e","i","g","h","t"," ","7",".","8"," ","o","z">>, <<"W","e","i","g","h","t",":"," ","8","o","z",","," ","l","e","n","g","t","h"," ","1","6",".","5"," ","i","n","c","h","e","s">>,
     <<"t","h","e"," ","w","e","i","g","h","t"," ","i","s"," ","l","i","g","h","t",".">>, <<"p","o","w","e","r"," ","1",".",".","5">>, <<"s","p","i","n"," ",".","5">>, <<"p","o","p"," ","9",".">>}

InitHeuristic ==
    /\ sv_keyword = None /\ sv_out = None
    /\ \/ sv_pc = "page" /\ sv_page \in HeuristicPages /\ sv_specs = None
       \/ sv_pc = "specs" /\ sv_page = None /\ sv_specs \in DirectSpecsTexts

IdleHeuristic ==
    sv_page = None /\ sv_specs = None /\ sv_keyword = None /\ sv_out = None
    /\ sv_pc = "idle"

\* forward(), line 60: the specs sentence of the page
ForwardExtractSpecs ==
    /\ sv_pc = "page"
    /\ sv_specs' = extract_from_text(sv_page, specs_keywords)
    /\ sv_pc' = "specs"
    /\ UNCHANGED <<sv_page, sv_keyword, sv_out>>
    /\ UNCHANGED notHeuristicVars

\* forward(), lines 61-78, or a direct call: one call of extract_spec_value
CallExtractSpecValue ==
    /\ sv_pc = "specs"
    /\ \E keyword \in SpecsValueKeywords \cup PerformanceValueKeywords :
          /\ keyword \in SpecsValueKeywords /\ sv_page # None
                => sv_specs # None /\ sv_specs # <<>>
          /\ sv_keyword' = keyword
          /\ sv_out' = extract_spec_value(sv_specs, keyword)
    /\ sv_pc' = "done"
    /\ UNCHANGED <<sv_page, sv_specs>>
    /\ UNCHANGED notHeuristicVars

NextHeuristic == ForwardExtractSpecs \/ CallExtractSpecValue

\* C23: extract_spec_value never raises: for every specs text and every
\* keyword it returns a float or None
C23_SpecValueNeverRaises ==
    sv_pc = "done" => sv_out \notin Exceptions /\ IsFloatOrNone(sv_out)

\* what does hold: the call returns a float, None, or raises ValueError
SpecValueFloatNoneOrValueError ==
    sv_pc = "done" => sv_out = ValueError \/ IsFloatOrNone(sv_out)

\* the call raises on a specs sentence that forward() took from a page
SpecValueRaisesInForward ==
    sv_pc = "done" /\ sv_page # None /\ sv_out = ValueError
---------------------------------------------------------------------------
(* insert_paddles_fixed.py and upload_paddles.py: the export payloads *)

\* dict.get(key, default)
DictGet(d, key, default) == IF key \in DOMAIN d THEN d[key] ELSE default

\* a call that raised KeyError
KeyErrorRaised == [raised |-> "KeyError"]

default_average_weight == Rat(8, 1)    \* 8.0
default_core == Rat(16, 1)             \* 16.0

\* PaddleInserter.fix_paddle_data: the defaults for a weight and a core that
\* are None or absent
fix_paddle_data(paddle_data) ==
    LET specs == paddle_data["specs"]
        weighted == IF DictGet(specs, "average_weight", None) = None
                    THEN DictSet(specs, "average_weight", default_average_weight)
                    ELSE specs
        cored == IF DictGet(weighted, "core", None) = None
                 THEN DictSet(weighted, "core", default_core)
                 ELSE weighted
    IN  DictSet(paddle_data, "specs", cored)

\* PaddleInserter.transform_paddle_data: the payload of a record, or KeyError
\* when the record lacks one of the keys that are subscripted
transform_paddle_data(paddle_data) ==
    IF {"metadata", "specs", "performance"} \subseteq DOMAIN paddle_data
       /\ {"brand", "model"} \subseteq DOMAIN paddle_data["metadata"]
    THEN LET fixed == fix_paddle_data(paddle_data)
             meta == [brand |-> fixed["metadata"]["brand"],
                      model |-> fixed["metadata"]["model"]]
         IN  [metadata |-> meta,
              specs |-> fixed["specs"],
              performance |-> fixed["performance"]]
    ELSE KeyErrorRaised

\* the loaded record after transform_paddle_data: fix_paddle_data writes the
\* defaults into the record itself, also when a later subscript raises
\* KeyError; a record without specs raises before anything is written
RecordAfterTransform(paddle_data) ==
    IF "specs" \in DOMAIN paddle_data THEN fix_paddle_data(paddle_data) ELSE paddle_data

\* upload_paddles.main, lines 35-39: the payload of a record
paddle_input(paddle) ==
    [metadata |-> DictGet(paddle, "metadata", EmptyDict),
     specs |-> DictGet(paddle, "specs", EmptyDict),
     performance |-> DictGet(paddle, "performance", EmptyDict)]

---------------------------------------------------------------------------
(* The export of one record as a state machine *)

\* the metadata of a record: as the scrapers write it (brand, model, source),
\* with an id, already reduced, without a model
ExportMetadatas ==
    {[brand |-> <<"S","e","l","k","i","r","k">>, model |-> <<"V","a","n","g","u","a","r","d">>, source |-> <<"P","i","c","k","l","e","b","a","l","l"," ","G","a","l","a","x","y">>],
     [id |-> <<"s","e","l","k","i","r","k","-","v","a","n","g","u","a","r","d">>, brand |-> <<"S","e","l","k","i","r","k">>, model |-> <<"V","a","n","g","u","a","r","d">>,
      source |-> <<"P","i","c","k","l","e","b","a","l","l"," ","C","e","n","t","r","a","l">>],
     [brand |-> <<"J","o","o","l","a">>, model |-> <<"H","y","p","e","r","i","o","n">>],
     [brand |-> <<"J","o","o","l","a">>]}

ExportSpecs ==
    {[shape |-> <<"E","l","o","n","g","a","t","e","d">>, average_weight |-> Rat(79, 10), core |-> Rat(16, 1)],
     [shape |-> <<"S","t","a","n","d","a","r","d">>, average_weight |-> None, core |-> None],
     [shape |-> <<"S","t","a","n","d","a","r","d">>, core |-> Rat(13, 1)]}

ExportPerformances ==
    {[power |-> None, spin |-> None],
     [power |-> Rat(9, 1), spin |-> Rat(17, 2)]}

\* the records of a file: any subset of the keys id, metadata, specs,
\* performance
ExportRecords ==
    LET ids == {EmptyDict, [id |-> <<"s","e","l","k","i","r","k","-","v","a","n","g","u","a","r","d">>]}
        metas == {EmptyDict} \cup {[metadata |-> m] : m \in ExportMetadatas}
        specs == {EmptyDict} \cup {[specs |-> s] : s \in ExportSpecs}
        perfs == {EmptyDict} \cup {[performance |-> p] : p \in ExportPerformances}
    IN  {i @@ m @@ s @@ p : i \in ids, m \in metas, s \in specs, p \in perfs}

InitExport ==
    xp_record \in ExportRecords /\ xp_script = "none" /\ xp_payload = EmptyDict
    /\ xp_pc = "record"

IdleExport ==
    xp_record = EmptyDict /\ xp_script = "none" /\ xp_payload = EmptyDict
    /\ xp_pc = "idle"

\* insert_paddles, line 103: the payload the inserter posts; the record is
\* fixed in place
TransformPaddleData ==
    /\ xp_pc = "record"
    /\ xp_script' = "inserter"
    /\ xp_payload' = transform_paddle_data(xp_record)
    /\ xp_record' = RecordAfterTransform(xp_record)
    /\ xp_pc' = "done"
    /\ UNCHANGED notExportVars

\* upload_paddles.main, lines 30-39: the payload the upload script posts
UploadPaddle ==
    /\ xp_pc = "record"
    /\ xp_script' = "upload"
    /\ xp_payload' = paddle_input(xp_record)
    /\ xp_pc' = "done"
    /\ UNCHANGED xp_record
    /\ UNCHANGED notExportVars

NextExport == TransformPaddleData \/ UploadPaddle

Sent == xp_pc = "done" /\ xp_payload # KeyErrorRaised

PayloadShape ==
    /\ DOMAIN xp_payload = {"metadata", "specs", "performance"}
    /\ DOMAIN xp_payload["metadata"] = {"brand", "model"}

\* C22: every payload the export scripts send has exactly the keys metadata,
\* specs, performance, and its metadata holds only brand and model
C22_PayloadShape == Sent => PayloadShape

\* what does hold: the top-level keys of both scripts' payloads, and the
\* metadata of the inserter's
PayloadKeys ==
    Sent => DOMAIN xp_payload = {"metadata", "specs", "performance"}
InserterPayloadShape == Sent /\ xp_script = "inserter" => PayloadShape

\* the upload script sends the source of a record the scrapers wrote
UploadSendsSource ==
    /\ Sent /\ xp_script = "upload"
    /\ DOMAIN xp_record = {"id", "metadata", "specs", "performance"}
    /\ DOMAIN xp_record["metadata"] = {"brand", "model", "source"}
    /\ "source" \in DOMAIN xp_payload["metadata"]
---------------------------------------------------------------------------
(* api_service.py: the scrape jobs *)

MaxJobs == 2        \* jobs submitted in one run

\* scrape_paddles, lines 68-76: the entry of a new job
NewJob(job_id, urls, save_to_file, output_file) ==
    [status |-> "pending", urls |-> urls, total_urls |-> Len(urls),
     completed_urls |-> 0, results |-> <<>>, save_to_file |-> save_to_file,
     output_file |-> IF output_file # None /\ output_file # <<>> THEN output_file
                     ELSE <<"paddle_scrape_", job_id, ".json">>]

\* process_scrape_job, line 92
RunningJob(job) == [job EXCEPT !.status = "running"]

\* process_scrape_job, lines 103-105
CompletedJob(job, results) ==
    [job EXCEPT !.status = "completed", !.results = results,
                !.completed_urls = Len(results)]

\* a failure handler that queues the job again
RequeuedJob(job, error) == DictSet([job EXCEPT !.status = "pending"], "error", error)

\* process_scrape_job, lines 107-110
FailedJob(job, error) == DictSet([job EXCEPT !.status = "failed"], "error", error)

\* PaddleScraperService.batch_scrape(urls), awaited on line 96: the results
\* of the urls that gave a record, in order, or an exception
Raised(error) == [raised |-> error]
ResultOf(url) == <<"paddle of", url>>
RECURSIVE Kept(_, _, _)
Kept(urls, keep, i) ==
    IF i > Len(urls) THEN <<>>
    ELSE (IF i \in keep THEN <<ResultOf(urls[i])>> ELSE <<>>) \o Kept(urls, keep, i + 1)
BatchScrapeOutcomes(urls) ==
    {[results |-> Kept(urls, keep, 1)] : keep \in SUBSET (1..Len(urls))}
        \cup {Raised(<<"s","c","r","a","p","e"," ","f","a","i","l","e","d">>)}

\* PaddleScraperService.save_to_json, line 100: returns or raises
SaveOutcomes == {[saved |-> TRUE], Raised(<<"d","i","s","k"," ","f","u","l","l">>)}

\* process_scrape_job, lines 96-110: the job after the awaited batch scrape
JobAfterScrape(job, scraped, saved) ==
    IF "raised" \in DOMAIN scraped THEN FailedJob(job, scraped.raised)
    ELSE IF job.save_to_file /\ "raised" \in DOMAIN saved
    THEN FailedJob(job, saved.raised)
    ELSE CompletedJob(job, scraped.results)

\* a get_job_status that returns the results of a job in any status
JobStatusWithResults(jobs, job_id) ==
    IF job_id \notin DOMAIN jobs THEN [code |-> 404, detail |-> "Job not found"]
    ELSE LET job == jobs[job_id]
         IN  [code |-> 200, status |-> job.status, data |-> job.results,
              error |-> IF "error" \in DOMAIN job THEN job.error ELSE None]

\* get_job_status, lines 117-126: 404 for an unknown id, else the ScrapeResult
get_job_status(jobs, job_id) ==
    IF job_id \notin DOMAIN jobs THEN [code |-> 404, detail |-> "Job not found"]
    ELSE LET job == jobs[job_id]
         IN  [code |-> 200, status |-> job.status,
              data |-> IF job.status = "completed" THEN job.results ELSE None,
              error |-> IF "error" \in DOMAIN job THEN job.error ELSE None]

---------------------------------------------------------------------------
(* The service as a state machine: every handler is a coroutine of one event
   loop, so the code between two awaits is one step *)

JobIds == 1..MaxJobs
\* the requests: ScrapeRequest(urls, save_to_file, output_file), the output
\* file absent, named, or the empty text
ScrapeRequests ==
    {[urls |-> <<"u1">>, save_to_file |-> FALSE, output_file |-> None],
     [urls |-> <<"u1", "u2">>, save_to_file |-> FALSE, output_file |-> None],
     [urls |-> <<"u1", "u2">>, save_to_file |-> TRUE, output_file |-> <<"out.json">>],
     [urls |-> <<"u1">>, save_to_file |-> TRUE, output_file |-> None],
     [urls |-> <<"u1">>, save_to_file |-> TRUE, output_file |-> <<>>]}
NoResponse == [job_id |-> 0, result |-> [code |-> 0]]

InitJobs ==
    /\ jb_jobs = EmptyDict /\ jb_task = EmptyDict /\ jb_results = EmptyDict
    /\ jb_response = NoResponse /\ jb_pc = "serving"

IdleJobs ==
    /\ jb_jobs = EmptyDict /\ jb_task = EmptyDict /\ jb_results = EmptyDict
    /\ jb_response = NoResponse /\ jb_pc = "idle"

\* POST /scrape (scrape_paddles): a new entry under a fresh id (uuid4 in the
\* code, the next number here), its background task queued
ScrapePaddles ==
    /\ jb_pc = "serving"
    /\ Cardinality(DOMAIN jb_jobs) < MaxJobs
    /\ \E request \in ScrapeRequests :
          LET job_id == Cardinality(DOMAIN jb_jobs) + 1
          IN  /\ jb_jobs' = DictSet(jb_jobs, job_id,
                                     NewJob(job_id, request.urls, request.save_to_file,
                                            request.output_file))
              /\ jb_task' = DictSet(jb_task, job_id, "queued")
              /\ jb_results' = DictSet(jb_results, job_id, None)
    /\ UNCHANGED <<jb_response, jb_pc>>
    /\ UNCHANGED notJobsVars

\* process_scrape_job, lines 91-96: up to the await of batch_scrape
ProcessStart(job_id) ==
    /\ jb_pc = "serving"
    /\ job_id \in DOMAIN jb_task /\ jb_task[job_id] = "queued"
    /\ jb_jobs' = [jb_jobs EXCEPT ![job_id] = RunningJob(@)]
    /\ jb_task' = [jb_task EXCEPT ![job_id] = "awaiting"]
    /\ UNCHANGED <<jb_results, jb_response, jb_pc>>
    /\ UNCHANGED notJobsVars

\* process_scrape_job, lines 96-110: from the return of batch_scrape to the end
ProcessFinish(job_id) ==
    /\ jb_pc = "serving"
    /\ job_id \in DOMAIN jb_task /\ jb_task[job_id] = "awaiting"
    /\ jb_task' = [jb_task EXCEPT ![job_id] = "finished"]
    /\ \E scraped \in BatchScrapeOutcomes(jb_jobs[job_id].urls), saved \in SaveOutcomes :
          /\ jb_jobs' = [jb_jobs EXCEPT ![job_id] = JobAfterScrape(@, scraped, saved)]
          /\ jb_results' = [jb_results EXCEPT ![job_id] =
                               IF "raised" \in DOMAIN scraped THEN None
                               ELSE scraped.results]
    /\ UNCHANGED <<jb_response, jb_pc>>
    /\ UNCHANGED notJobsVars

\* GET /jobs/{job_id} (get_job_status), for a known or an unknown id
GetJobStatus ==
    /\ jb_pc = "serving"
    /\ \E job_id \in 1..(MaxJobs + 1) :
          jb_response' = [job_id |-> job_id,
                          result |-> get_job_status(jb_jobs, job_id)]
    /\ UNCHANGED <<jb_jobs, jb_task, jb_results, jb_pc>>
    /\ UNCHANGED notJobsVars

NextJobs ==
    \/ ScrapePaddles
    \/ \E job_id \in JobIds : ProcessStart(job_id)
    \/ \E job_id \in JobIds : ProcessFinish(job_id)
    \/ GetJobStatus

---------------------------------------------------------------------------
(* Claims about the scrape jobs *)

JobSteps == {<<"pending", "running">>, <<"running", "completed">>, <<"running", "failed">>}

\* the background task of job_id, and no other, took the step
OwnTaskStepped(job_id) ==
    /\ jb_task'[job_id] # jb_task[job_id]
    /\ \A other \in DOMAIN jb_task \ {job_id} : jb_task'[other] = jb_task[other]

JobLifecycleStep ==
    /\ \A job_id \in DOMAIN jb_jobs :
          /\ job_id \in DOMAIN jb_jobs'
          /\ \/ jb_jobs'[job_id].status = jb_jobs[job_id].status
             \/ <<jb_jobs[job_id].status, jb_jobs'[job_id].status>> \in JobSteps
          /\ jb_jobs[job_id].status \in {"completed", "failed"}
                => jb_jobs'[job_id] = jb_jobs[job_id]
          /\ jb_jobs'[job_id] # jb_jobs[job_id] => OwnTaskStepped(job_id)
    /\ \A job_id \in DOMAIN jb_jobs' \ DOMAIN jb_jobs :
          jb_jobs'[job_id].status = "pending"

\* C26: a job's status only moves pending -> running -> completed or failed,
\* completed and failed never change afterwards, and an entry is modified
\* only by a step of its own background task
C26_JobLifecycle == [][JobLifecycleStep]_vars

\* one job completed and another failed, after running side by side
C26_Witness ==
    \E a, b \in DOMAIN jb_jobs :
        /\ jb_jobs[a].status = "completed" /\ jb_jobs[a].results # <<>>
        /\ jb_jobs[b].status = "failed"

StatusResponseStep ==
    jb_response' # jb_response =>
        LET job_id == jb_response'.job_id
            result == jb_response'.result
        IN  /\ jb_jobs' = jb_jobs
            /\ IF job_id \notin DOMAIN jb_jobs THEN result.code = 404
               ELSE /\ result.code = 200
                    /\ result.status = jb_jobs[job_id].status
                    /\ result.data # None => result.status = "completed"
                    /\ result.status = "completed" => result.data = jb_results[job_id]
                    /\ result.error # None => result.status = "failed"

\* C27: get_job_status returns data only for a completed job, and then the
\* result list of the batch scrape; an error only for a failed job; 404 for
\* an unknown id; and it changes no job
C27_StatusResponses == [][StatusResponseStep]_vars

\* the results of a completed job were returned while another job was
\* running, and the status of an unknown job was asked for before
C27_Witness ==
    /\ jb_response.result.code = 200
    /\ jb_response.result.status = "completed"
    /\ Len(jb_response.result.data) = 2
    /\ \E other \in DOMAIN jb_task : jb_task[other] = "awaiting"

\* a request for an unknown id was answered with 404
UnknownJobAnswered == jb_response.result.code = 404

\* an error was reported for a failed job
FailedJobAnswered ==
    jb_response.result.code = 200 /\ jb_response.result.error # None
---------------------------------------------------------------------------
(* insert_paddles_fixed.py: PaddleInserter.insert_paddles *)

MaxRecords == 3     \* records of one file

\* PaddleInserter.load_paddles_from_json: the records, [] when the file
\* cannot be read
load_paddles_from_json(file, readable) == IF readable THEN file ELSE <<>>

\* PaddleInserter.insert_paddle: whether the post counts as a success; the
\* response is a status code or the RequestException of requests.post
insert_paddle(response) ==
    IF "raised" \in DOMAIN response THEN FALSE
    ELSE IF response.status_code = 201 THEN TRUE
    ELSE IF response.status_code = 409 THEN TRUE
    ELSE FALSE

---------------------------------------------------------------------------
(* The insertion of a file as a state machine *)

\* the responses of the API: created, duplicate, rejected, server error, or
\* no response
PostFailed == [raised |-> "RequestException"]
PostResponses == {[status_code |-> code] : code \in {201, 409, 400, 500}} \cup {PostFailed}

\* records as the scrapers write them: asdict of a Paddle, of Galaxy without
\* performance (galaxy_scraper.py line 479) and of Central
ScrapedRecords ==
    {[id |-> <<"s","e","l","k","i","r","k","-","v","a","n","g","u","a","r","d">>,
      metadata |-> [brand |-> <<"S","e","l","k","i","r","k">>, model |-> <<"V","a","n","g","u","a","r","d">>,
                    source |-> <<"P","i","c","k","l","e","b","a","l","l"," ","G","a","l","a","x","y">>],
      specs |-> [shape |-> <<"S","t","a","n","d","a","r","d">>, average_weight |-> None, core |-> None],
      performance |-> None],
     [id |-> <<"j","o","o","l","a","-","h","y","p","e","r","i","o","n">>,
      metadata |-> [brand |-> <<"J","o","o","l","a">>, model |-> <<"H","y","p","e","r","i","o","n">>,
                    source |-> <<"P","i","c","k","l","e","b","a","l","l"," ","C","e","n","t","r","a","l">>],
      specs |-> [shape |-> <<"E","l","o","n","g","a","t","e","d">>, average_weight |-> Rat(79, 10),
                 core |-> Rat(16, 1)],
      performance |-> [power |-> Rat(9, 1), spin |-> Rat(17, 2)]]}

\* records of a file that lack a key transform_paddle_data subscripts: the
\* metadata, the performance
IncompleteRecords ==
    {[id |-> <<"n","o","-","m","e","t","a","d","a","t","a">>,
      specs |-> [shape |-> <<"S","t","a","n","d","a","r","d">>, average_weight |-> None, core |-> Rat(13, 1)],
      performance |-> [power |-> Rat(8, 1), spin |-> Rat(8, 1)]],
     [id |-> <<"n","o","-","p","e","r","f","o","r","m","a","n","c","e">>,
      metadata |-> [brand |-> <<"E","n","g","a","g","e">>, model |-> <<"P","u","r","s","u","i","t">>,
                    source |-> <<"P","i","c","k","l","e","b","a","l","l"," ","C","e","n","t","r","a","l">>],
      specs |-> [shape |-> <<"H","y","b","r","i","d">>, average_weight |-> Rat(8, 1), core |-> Rat(16, 1)]]}

FileRecords == ScrapedRecords \cup IncompleteRecords

RecordFiles == UNION {[1..n -> FileRecords] : n \in 0..MaxRecords}

InitInserter ==
    /\ ins_file \in RecordFiles /\ ins_readable \in BOOLEAN
    /\ ins_paddles = <<>> /\ ins_i = 0 /\ ins_posted = <<>> /\ ins_responses = <<>>
    /\ ins_successful = 0 /\ ins_failed = 0 /\ ins_sleeps = 0
    /\ ins_pc = "load"

IdleInserter ==
    /\ ins_file = <<>> /\ ins_readable = FALSE
    /\ ins_paddles = <<>> /\ ins_i = 0 /\ ins_posted = <<>> /\ ins_responses = <<>>
    /\ ins_successful = 0 /\ ins_failed = 0 /\ ins_sleeps = 0
    /\ ins_pc = "idle"

\* insert_paddles, lines 89-98: load the file; nothing to insert ends the call
InsertPaddlesLoad ==
    /\ ins_pc = "load"
    /\ ins_paddles' = load_paddles_from_json(ins_file, ins_readable)
    /\ ins_pc' = IF ins_paddles' = <<>> THEN "done" ELSE "loop"
    /\ UNCHANGED <<ins_file, ins_readable, ins_i, ins_posted, ins_responses, ins_successful,
                   ins_failed, ins_sleeps>>
    /\ UNCHANGED notInserterVars

\* insert_paddles, lines 101-115: one pass of the loop; fix_paddle_data
\* changes the loaded record in place. Line 102 is outside every try: a
\* KeyError of transform_paddle_data leaves insert_paddles, before the post,
\* the count and the sleep of this record and with the later records not
\* looked at
InsertPaddlesStep ==
    /\ ins_pc = "loop"
    /\ LET paddle_data == ins_paddles[ins_i + 1]
           transformed_paddle == transform_paddle_data(paddle_data)
       IN  /\ ins_paddles' = [ins_paddles EXCEPT ![ins_i + 1] = RecordAfterTransform(paddle_data)]
           /\ IF transformed_paddle = KeyErrorRaised
              THEN /\ ins_pc' = "raised"
                   /\ UNCHANGED <<ins_i, ins_posted, ins_responses, ins_successful,
                                  ins_failed, ins_sleeps>>
              ELSE /\ ins_posted' = Append(ins_posted, transformed_paddle)
                   /\ ins_i' = ins_i + 1
                   /\ ins_sleeps' = ins_sleeps + 1
                   /\ ins_pc' = IF ins_i' = Len(ins_paddles) THEN "done" ELSE "loop"
                   /\ \E response \in PostResponses :
                         /\ ins_responses' = Append(ins_responses, response)
                         /\ ins_successful' =
                               ins_successful + (IF insert_paddle(response) THEN 1 ELSE 0)
                         /\ ins_failed' =
                               ins_failed + (IF insert_paddle(response) THEN 0 ELSE 1)
    /\ UNCHANGED <<ins_file, ins_readable>>
    /\ UNCHANGED notInserterVars

NextInserter == InsertPaddlesLoad \/ InsertPaddlesStep

---------------------------------------------------------------------------
(* Claims about insert_paddles *)

Accepted ==
    {i \in 1..Len(ins_responses) :
        ins_responses[i] \in {[status_code |-> 201], [status_code |-> 409]}}

\* the call has ended: it returned, or an exception left it
InsertPaddlesEnded == ins_pc \in {"done", "raised"}

\* every record of the file has the keys transform_paddle_data subscripts
CompleteFile == \A i \in 1..Len(ins_file) : ins_file[i] \in ScrapedRecords

\* C30: insert_paddles attempts every record of the file once, in file
\* order, whatever the earlier outcomes; successful_inserts + failed_inserts
\* is the number of records; 201 and 409 count as successes, every other
\* status and a request error as failures
C30_EveryRecordAttempted ==
    InsertPaddlesEnded /\ ins_readable =>
        /\ ins_i = Len(ins_file)
        /\ Len(ins_posted) = Len(ins_file)
        /\ ins_successful + ins_failed = Len(ins_file)
        /\ ins_successful = Cardinality(Accepted)

\* what holds: the records that are posted are the first of the file, in
\* file order, each once and each counted once; a file of complete records
\* is posted whole
PostedInFileOrder ==
    InsertPaddlesEnded /\ ins_readable =>
        /\ Len(ins_posted) = ins_i /\ ins_i <= Len(ins_file)
        /\ \A i \in 1..ins_i :
              /\ ins_posted[i].metadata.brand = ins_file[i].metadata.brand
              /\ ins_posted[i].metadata.model = ins_file[i].metadata.model
        /\ ins_successful + ins_failed = ins_i
        /\ ins_successful = Cardinality(Accepted)
        /\ CompleteFile => ins_pc = "done" /\ ins_i = Len(ins_file)

\* three complete records of which the first failed without a response, the
\* second was a duplicate and the third was rejected
CompleteFileInserted ==
    /\ ins_pc = "done" /\ ins_readable /\ Len(ins_file) = MaxRecords /\ CompleteFile
    /\ ins_file[1] # ins_file[2]
    /\ ins_responses[1] = PostFailed /\ ins_responses[2] = [status_code |-> 409]
    /\ ins_responses[Len(ins_responses)] = [status_code |-> 500]
    /\ ins_successful = 1

\* a record without metadata in second place: the first record was posted,
\* the third was not, and no count was reported
LaterRecordsSkipped ==
    /\ ins_pc = "raised" /\ ins_readable /\ Len(ins_file) = MaxRecords
    /\ "metadata" \notin DOMAIN ins_file[2]
    /\ ins_file[MaxRecords] \in ScrapedRecords
    /\ Len(ins_posted) = 1
---------------------------------------------------------------------------
(* Specifications: one per component, and the program as a whole *)

IdleEnv == fs_files = {} /\ net_log = <<>>

FloatInit == IdleEnv /\ InitFloat /\ IdleName /\ IdleShape /\ IdleId
    /\ IdleGalaxy /\ IdleCentral /\ IdleImage /\ IdleHtml /\ IdleHeuristic
    /\ IdleExport /\ IdleJobs /\ IdleInserter
NameInit == IdleEnv /\ IdleFloat /\ InitName /\ IdleShape /\ IdleId
    /\ IdleGalaxy /\ IdleCentral /\ IdleImage /\ IdleHtml /\ IdleHeuristic
    /\ IdleExport /\ IdleJobs /\ IdleInserter
ShapeInit == IdleEnv /\ IdleFloat /\ IdleName /\ InitShape /\ IdleId
    /\ IdleGalaxy /\ IdleCentral /\ IdleImage /\ IdleHtml /\ IdleHeuristic
    /\ IdleExport /\ IdleJobs /\ IdleInserter
IdInit == IdleEnv /\ IdleFloat /\ IdleName /\ IdleShape /\ InitId
    /\ IdleGalaxy /\ IdleCentral /\ IdleImage /\ IdleHtml /\ IdleHeuristic
    /\ IdleExport /\ IdleJobs /\ IdleInserter
GalaxyInit == IdleFloat /\ IdleName /\ IdleShape /\ IdleId /\ InitGalaxy
    /\ IdleCentral /\ IdleImage /\ IdleHtml /\ IdleHeuristic /\ IdleExport
    /\ IdleJobs /\ IdleInserter
CentralInit == IdleFloat /\ IdleName /\ IdleShape /\ IdleId /\ IdleGalaxy
    /\ InitCentral /\ IdleImage /\ IdleHtml /\ IdleHeuristic /\ IdleExport
    /\ IdleJobs /\ IdleInserter
ImageInit == IdleFloat /\ IdleName /\ IdleShape /\ IdleId /\ IdleGalaxy
    /\ IdleCentral /\ InitImage /\ IdleHtml /\ IdleHeuristic /\ IdleExport
    /\ IdleJobs /\ IdleInserter
HtmlInit == IdleEnv /\ IdleFloat /\ IdleName /\ IdleShape /\ IdleId
    /\ IdleGalaxy /\ IdleCentral /\ IdleImage /\ InitHtml /\ IdleHeuristic
    /\ IdleExport /\ IdleJobs /\ IdleInserter
HeuristicInit == IdleEnv /\ IdleFloat /\ IdleName /\ IdleShape /\ IdleId
    /\ IdleGalaxy /\ IdleCentral /\ IdleImage /\ IdleHtml /\ InitHeuristic
    /\ IdleExport /\ IdleJobs /\ IdleInserter
ExportInit == IdleEnv /\ IdleFloat /\ IdleName /\ IdleShape /\ IdleId
    /\ IdleGalaxy /\ IdleCentral /\ IdleImage /\ IdleHtml /\ IdleHeuristic
    /\ InitExport /\ IdleJobs /\ IdleInserter
JobsInit == IdleEnv /\ IdleFloat /\ IdleName /\ IdleShape /\ IdleId
    /\ IdleGalaxy /\ IdleCentral /\ IdleImage /\ IdleHtml /\ IdleHeuristic
    /\ IdleExport /\ InitJobs /\ IdleInserter
InserterInit == IdleEnv /\ IdleFloat /\ IdleName /\ IdleShape /\ IdleId
    /\ IdleGalaxy /\ IdleCentral /\ IdleImage /\ IdleHtml /\ IdleHeuristic
    /\ IdleExport /\ IdleJobs /\ InitInserter
AdaptersInit == GalaxyInit \/ CentralInit

SpecFloat == FloatInit /\ [][NextFloat]_vars
SpecName == NameInit /\ [][NextName]_vars
SpecShape == ShapeInit /\ [][NextShape]_vars
SpecId == IdInit /\ [][NextId]_vars
SpecAdapters == AdaptersInit /\ [][NextAdapters]_vars
SpecImage == ImageInit /\ [][NextImage]_vars
SpecHtml == HtmlInit /\ [][NextHtml]_vars
SpecHeuristic == HeuristicInit /\ [][NextHeuristic]_vars
SpecExport == ExportInit /\ [][NextExport]_vars
SpecJobs == JobsInit /\ [][NextJobs]_vars
SpecInserter == InserterInit /\ [][NextInserter]_vars

Init == FloatInit \/ NameInit \/ ShapeInit \/ IdInit \/ AdaptersInit
    \/ ImageInit \/ HtmlInit \/ HeuristicInit \/ ExportInit \/ JobsInit
    \/ InserterInit
Next == NextFloat \/ NextName \/ NextShape \/ NextId \/ NextAdapters
    \/ NextImage \/ NextHtml \/ NextHeuristic \/ NextExport \/ NextJobs
    \/ NextInserter
Spec == Init /\ [][Next]_vars
=============================================================================
